---- MODULE Spec2Model ----
(***************************************************************************)
(* The Yoruba synonym finder: dictionary lookup (src/api/index.py,         *)
(* src/simple_app.py, src/simple_query.py), the size label of the two web  *)
(* front ends, the load/save round trip of src/scripts/expand_dictionary.py *)
(* and the dictionary loader of the web API.                               *)
(*                                                                         *)
(* A word is a sequence of Unicode code points: 32 is the space, 65 is     *)
(* 'A', 97 is 'a', 98 is 'b'.  Similarity values are counted in tenths     *)
(* (10 is 1.0), similarity ratios are kept as fractions <<num, den>>.      *)
(***************************************************************************)
EXTENDS Integers, Sequences, FiniteSets, TLC

VARIABLES
    \* the lookup (src/api/index.py, src/simple_app.py, src/simple_query.py)
    dictionary,   \* the in-memory dictionary (a Python dict: ordered, unique keys)
    frontend,     \* whose lookup ran last: "api_search", "api_index", "simple_app", "simple_query"
    request,      \* the query and the result count of the last lookup
    stage,        \* the return path the last lookup took: "headword", "synonym", "fuzzy"
    sampled_keys, \* positions of the listed entries in the fuzzy stage's sampled_keys
    status,       \* "idle" | "returned" | "raised" | "http400" | "rendered"
    results,      \* the list the last lookup returned
    \* the size label of the two web pages
    flask_label,     \* text of the dictionary-type span of HTML_TEMPLATE, once rendered
    streamlit_label, \* dictionary_type of the Streamlit footer, once rendered
    \* src/scripts/expand_dictionary.py
    input_file,     \* the file at input_file
    target_count,   \* the argument target_count
    loaded,         \* what load_existing_dictionary returned
    output_file,    \* the file at output_file
    expand_pc,      \* "start" | "done"
    returned_count, \* the value expand_dictionary returned
    \* src/scripts/expand_massive_dictionary.py expand_massive_dictionary
    massive_dictionary, \* the local dictionary: the items in dict order
    entries_done,       \* turns of `for _ in range(batch_size_actual)` finished, all batches
    attempt_count,      \* the local attempt_count
    last_entry,         \* the local entry: what generate_enhanced_entry() returned last
    stored_key,         \* the key the while loop stored that entry under, <<>> if it did not
    \* load_dictionary of src/api/index.py
    fs,             \* the candidate paths, in the order tried: what is at each
    load_pc,        \* "start" | "loaded" | "raised"
    \* the start of a front end
    program,        \* "api" | "simple_app" | "simple_query" | "query"
    process,        \* "starting" | "padding" | "serving" | "stopped" | "exited" | "crashed"
    last_padded,    \* the key and the entry of the last store of the padding loop
    \* the generation code
    generator,      \* which generator ran: "padding" | "validate_entry" | ...
    generated,      \* whether it returned, and the entry it made
    \* src/generate_entries.py process_all_words
    words,             \* the argument words
    batch_size,        \* the argument batch_size
    batches,           \* the batches taken so far, one per turn of the for loop
    output,            \* the lines written to output_file, as the entries dumped
    processed_entries, \* the counter, returned at the end
    errors,            \* the batch numbers of the "Error processing batch" lines printed
    last_extracted,    \* word, response and result of the last extract_definition_from_response
    pipe_pc,           \* "running" | "returned"
    \* src/get_common.py main
    files_found,    \* how many input files the three globs found
    token_counter,  \* the distinct words counted in them, most common first
    top_n,          \* --top-n
    fallback,       \* --fallback
    top_words,      \* the list written to the output file
    common_pc,      \* "start" | "written" | "returned" (nothing written)
    \* the command lines simple_query.py and query.py
    cli_mode,       \* "interactive" | "one_shot"
    cli_pc,         \* "reading" | "ended" (break) | "done" (one shot) | "crashed"
    cli_line,       \* what the last input() gave: a line, or end of input
    cli_out,        \* what the last turn did: searched, printed, results, blocks shown
    ntotal,         \* query.py: the number of vectors in the index
    indices         \* query.py: indices[0] of the last index.search

searchVars == <<frontend, request, stage, sampled_keys, status, results>>
labelVars == <<flask_label, streamlit_label>>
massiveVars == <<massive_dictionary, entries_done, attempt_count, last_entry, stored_key>>
expandVars == <<input_file, target_count, loaded, output_file, expand_pc, returned_count,
                massiveVars>>
loadVars == <<fs, load_pc>>
startVars == <<program, process, last_padded>>
pipeVars == <<words, batch_size, batches, output, processed_entries, errors,
              last_extracted, pipe_pc>>
commonVars == <<files_found, token_counter, top_n, fallback, top_words, common_pc>>
genVars == <<generator, generated, pipeVars, commonVars>>
cliVars == <<cli_mode, cli_pc, cli_line, cli_out, ntotal, indices>>
moreVars == <<startVars, genVars, cliVars>>

vars == <<dictionary, searchVars, labelVars, expandVars, loadVars, moreVars>>

(***************************************************************************)
(* Bounds of the model.                                                    *)
(***************************************************************************)
MaxLen == 2       \* longest query typed by a user
MaxEntries == 2   \* listed (non-filler) entries of a dictionary
Window == 5       \* entry counts this far around each threshold of the size label
MaxMembers == 3   \* members of the JSON object in the input file
MaxTarget == 2    \* largest target_count

Min(S) == CHOOSE x \in S : \A y \in S : x <= y
Max(S) == CHOOSE x \in S : \A y \in S : x >= y

Alphabet == {32, 65, 97, 98}
Strings(n) == UNION {[1..k -> Alphabet] : k \in 0..n}
Queries == Strings(MaxLen)

(***************************************************************************)
(* str.lower() and str.strip() on the code points of the model.            *)
(***************************************************************************)
Lower(c) == IF c >= 65 /\ c <= 90 THEN c + 32 ELSE c

IsSpace(c) == c \in {9, 10, 11, 12, 13, 32}

Strip(s) ==
    LET keep == {i \in 1..Len(s) : ~IsSpace(s[i])}
    IN  IF keep = {} THEN <<>> ELSE SubSeq(s, Min(keep), Max(keep))

\* def normalize_word(word): return word.lower().strip()
normalize_word(word) == Strip([i \in 1..Len(word) |-> Lower(word[i])])

(***************************************************************************)
(* difflib.SequenceMatcher(a = the candidate, b = the query).  Indices are *)
(* 1-based, lo inclusive, hi exclusive.  Words here are far shorter than   *)
(* the 200 elements at which difflib's autojunk heuristic starts.          *)
(***************************************************************************)
\* length of the longest common run starting at a[i], b[j]
RunLength(a, b, i, j, ahi, bhi) ==
    Max({k \in 0..Min({ahi - i, bhi - j}) :
            \A t \in 0..(k - 1) : a[i + t] = b[j + t]})

\* SequenceMatcher.find_longest_match: the longest block; of those the one
\* starting earliest in a, and of those the one starting earliest in b.
find_longest_match(a, b, alo, ahi, blo, bhi) ==
    LET pairs == (alo..(ahi - 1)) \X (blo..(bhi - 1))
        run   == [p \in pairs |-> RunLength(a, b, p[1], p[2], ahi, bhi)]
        best  == Max({run[p] : p \in pairs} \cup {0})
        cands == {p \in pairs : run[p] = best}
        i0    == Min({p[1] : p \in cands})
        j0    == Min({p[2] : p \in {c \in cands : c[1] = i0}})
    IN  IF best = 0 THEN <<alo, blo, 0>> ELSE <<i0, j0, best>>

\* SequenceMatcher.get_matching_blocks, summed: the number of matched elements
RECURSIVE matches(_, _, _, _, _, _)
matches(a, b, alo, ahi, blo, bhi) ==
    LET m == find_longest_match(a, b, alo, ahi, blo, bhi)
    IN  IF m[3] = 0 THEN 0
        ELSE m[3] + matches(a, b, alo, m[1], blo, m[2])
                  + matches(a, b, m[1] + m[3], ahi, m[2] + m[3], bhi)

\* difflib._calculate_ratio: 2.0 * matches / length, and 1.0 when length = 0
calculate_ratio(m, length) == IF length > 0 THEN <<2 * m, length>> ELSE <<1, 1>>

\* fractions with positive denominators
AtLeast(r, s) == r[1] * s[2] >= s[1] * r[2]
Greater(r, s) == r[1] * s[2] > s[1] * r[2]
SameRatio(r, s) == r[1] * s[2] = s[1] * r[2]

ratio(a, b) ==
    calculate_ratio(matches(a, b, 1, Len(a) + 1, 1, Len(b) + 1), Len(a) + Len(b))

Count(s, c) == Cardinality({i \in 1..Len(s) : s[i] = c})

\* SequenceMatcher.quick_ratio: the multiset intersection of the two words
quick_ratio(a, b) ==
    LET chars == {a[i] : i \in 1..Len(a)}
        common == [c \in chars |-> Min({Count(a, c), Count(b, c)})]
        RECURSIVE Sum(_)
        Sum(S) == IF S = {} THEN 0
                  ELSE LET c == CHOOSE x \in S : TRUE IN common[c] + Sum(S \ {c})
    IN  calculate_ratio(Sum(chars), Len(a) + Len(b))

\* SequenceMatcher.real_quick_ratio
real_quick_ratio(a, b) ==
    calculate_ratio(Min({Len(a), Len(b)}), Len(a) + Len(b))

\* Python's order on str: lexicographic on code points
RECURSIVE StrLess(_, _)
StrLess(x, y) ==
    IF x = <<>> THEN y # <<>>
    ELSE IF y = <<>> THEN FALSE
    ELSE IF x[1] # y[1] THEN x[1] < y[1]
    ELSE StrLess(Tail(x), Tail(y))

\* the fuzzy stage's cutoff=0.6
cutoff == <<6, 10>>

\* x passes get_close_matches' three tests against the query
IsCloseMatch(word, x) ==
    /\ AtLeast(real_quick_ratio(x, word), cutoff)
    /\ AtLeast(quick_ratio(x, word), cutoff)
    /\ AtLeast(ratio(x, word), cutoff)

\* the order of heapq.nlargest on the tuples (score, x)
TupleAbove(sx, x, sy, y) ==
    \/ Greater(sx, sy)
    \/ SameRatio(sx, sy) /\ StrLess(y, x)

\* mutant of get_close_matches: the n best, listed worst first
get_close_matches_worst_first(word, possibilities, n) ==
    LET close == {x \in possibilities : IsCloseMatch(word, x)}
        score == [x \in close |-> ratio(x, word)]
        place == [x \in close |->
                    Cardinality({y \in close : TupleAbove(score[y], y, score[x], x)}) + 1]
        size  == Min({n, Cardinality(close)})
    IN  [i \in 1..size |-> CHOOSE x \in close : place[x] = size + 1 - i]

\* difflib.get_close_matches(word, possibilities, n, cutoff) for n > 0, the
\* possibilities being distinct words (the keys of a dict): the best n of the
\* words that pass the cutoff, best first.  For n <= 0 it raises ValueError.
get_close_matches(word, possibilities, n) ==
    LET close == {x \in possibilities : IsCloseMatch(word, x)}
        score == [x \in close |-> ratio(x, word)]
        place == [x \in close |->
                    Cardinality({y \in close : TupleAbove(score[y], y, score[x], x)}) + 1]
    IN  [i \in 1..Min({n, Cardinality(close)}) |-> CHOOSE x \in close : place[x] = i]

(***************************************************************************)
(* The dictionary.  A dictionary file holds any number of entries; the     *)
(* model writes one as `pre` filler entries, then the listed entries, then *)
(* `post` filler entries, in the file's (and so the dict's) order.  The    *)
(* filler entry at position p is stored under the one-character headword   *)
(* FillerKey(p), a caseless non-space character outside Alphabet, with     *)
(* that headword doubled as its only synonym.  A normalized query is a     *)
(* word over Alphabet, so it is no filler key, equals no filler synonym    *)
(* and shares no character with a filler key: its ratio to a filler key is *)
(* 0.  The lookup therefore decides on the listed entries and on the       *)
(* positions at which they stand.                                          *)
(***************************************************************************)
FillerKey(p) == <<19967 + p>>
FillerEntry(p) ==
    [headword |-> FillerKey(p), pos |-> "noun",
     synonyms |-> <<FillerKey(p) \o FillerKey(p)>>]

\* the entries the listed part of a dictionary is drawn from
EntryPool ==
    { [headword |-> <<97, 98>>,     pos |-> "noun",      synonyms |-> << <<98>>, <<65, 97>> >>],
      [headword |-> <<97, 98, 98>>, pos |-> "verb",      synonyms |-> << <<97, 97>>, <<65>> >>],
      [headword |-> <<98>>,         pos |-> "noun",      synonyms |-> << <<98, 98>> >>],
      [headword |-> <<65>>,         pos |-> "adjective", synonyms |-> << <<98, 97>>, <<65, 98>> >>] }

\* lists of pool entries with pairwise distinct headwords (dict keys are unique)
EntryLists ==
    {es \in UNION {[1..k -> EntryPool] : k \in 0..MaxEntries} :
        \A i, j \in 1..Len(es) : i # j => es[i].headword # es[j].headword}

\* <<pre, post>>: the numbers of filler entries before and after the listed ones
Layouts == {<<0, 0>>, <<999, 0>>, <<499, 9500>>}

Dictionaries ==
    {[pre |-> l[1], entries |-> es, post |-> l[2]] : l \in Layouts, es \in EntryLists}

\* len(dictionary)
Size(d) == d.pre + Len(d.entries) + d.post

\* positions (1-based, in iteration order) of the listed entries
ListedPositions(d) == {d.pre + j : j \in 1..Len(d.entries)}

EntryAt(d, p) ==
    IF p \in ListedPositions(d) THEN d.entries[p - d.pre] ELSE FillerEntry(p)

KeyAt(d, p) == EntryAt(d, p).headword

\* `w in dictionary`, for a word w over Alphabet
InDictionary(d, w) == \E p \in ListedPositions(d) : KeyAt(d, p) = w

\* dictionary[w]
Lookup(d, w) == EntryAt(d, CHOOSE p \in ListedPositions(d) : KeyAt(d, p) = w)

(***************************************************************************)
(* search_synonyms: the three stages.                                      *)
(***************************************************************************)
synonym_check_limit == 1000

Result(rank, similarity, entry) ==
    [rank |-> rank, similarity |-> similarity, entry |-> entry]

\* how a call of search_synonyms ends: the return path and the list returned,
\* or the ValueError of difflib.get_close_matches
Returned(path, rs) == [raised |-> FALSE, stage |-> path, results |-> rs]
Raised == [raised |-> TRUE, stage |-> "fuzzy", results |-> <<>>]

\* mutant of ListsSynonym: the synonym is compared as stored, not normalized
ListsSynonym_raw(entry, query) ==
    \E i \in 1..Len(entry.synonyms) : entry.synonyms[i] = query

\* normalize_word(synonym) == query for some synonym of the entry
ListsSynonym(entry, query) ==
    \E i \in 1..Len(entry.synonyms) : normalize_word(entry.synonyms[i]) = query

\* the synonym scan over the first `scanned` entries: the positions that match
SynonymHits(d, query, scanned) ==
    {p \in ListedPositions(d) : p <= scanned /\ ListsSynonym(EntryAt(d, p), query)}

\* the sets sampled_keys can be, as positions of listed entries: every key up
\* to 10000 keys; beyond, the first 500 keys and random.sample of
\* min(2500, len - 500) of the others (any listed entries T among them, the
\* rest of the sample being filler keys)
Samples(d) ==
    IF Size(d) > 10000
    THEN LET head == {p \in ListedPositions(d) : p <= 500}
             tail == ListedPositions(d) \ head
             k    == Min({2500, Size(d) - 500})
         IN  {head \cup T : T \in {U \in SUBSET tail :
                 /\ Cardinality(U) <= k
                 /\ k - Cardinality(U) <= (Size(d) - 500) - Cardinality(tail)}}
    ELSE {ListedPositions(d)}

\* mutant of FuzzyStage: the similarity is counted from the rank, 1.0 - 0.1 * (i + 1)
FuzzyStage_from_rank(d, query, max_results, sample) ==
    IF max_results <= 0 THEN Raised
    ELSE LET found == get_close_matches(query, {KeyAt(d, p) : p \in sample}, max_results)
         IN  Returned("fuzzy", [k \in 1..Len(found) |->
                                  Result(k, 10 - k, Lookup(d, found[k]))])

\* the fuzzy stage: get_close_matches over the sampled keys, then one result
\* per match with rank i + 1 and similarity 1.0 - 0.1 * i (i from 0)
FuzzyStage(d, query, max_results, sample) ==
    IF max_results <= 0 THEN Raised
    ELSE LET found == get_close_matches(query, {KeyAt(d, p) : p \in sample}, max_results)
         IN  Returned("fuzzy", [k \in 1..Len(found) |->
                                  Result(k, 10 - (k - 1), Lookup(d, found[k]))])

\* mutant of Stages: the synonym scan runs before the headword test
Stages_scan_first(query, d, max_results, scanned, sample) ==
    LET hits == SynonymHits(d, query, scanned)
    IN  IF hits # {}
        THEN Returned("synonym", <<Result(1, 10, EntryAt(d, Min(hits)))>>)
        ELSE IF InDictionary(d, query)
        THEN Returned("headword", <<Result(1, 10, Lookup(d, query))>>)
        ELSE FuzzyStage(d, query, max_results, sample)

\* the two exact stages, then the fuzzy one; `scanned` is the number of
\* entries the synonym scan visits before it gives up
Stages(query, d, max_results, scanned, sample) ==
    LET hits == SynonymHits(d, query, scanned)
    IN  IF InDictionary(d, query)
        THEN Returned("headword", <<Result(1, 10, Lookup(d, query))>>)
        ELSE IF hits # {}
        THEN Returned("synonym", <<Result(1, 10, EntryAt(d, Min(hits)))>>)
        ELSE FuzzyStage(d, query, max_results, sample)

\* src/simple_query.py: every entry scanned, every key in the fuzzy stage
simple_query_search_synonyms(query, d, max_results) ==
    Stages(normalize_word(query), d, max_results, Size(d), ListedPositions(d))

\* src/simple_app.py: the scan stops after synonym_check_limit entries, the
\* fuzzy stage runs on sampled_keys
simple_app_search_synonyms(query, d, max_results, sample) ==
    Stages(normalize_word(query), d, max_results, synonym_check_limit, sample)

\* src/api/index.py: as in simple_app.py; a result carries the entry's
\* headword, pos and synonyms, which are all the fields of an entry here
search_synonyms(query, d, max_results, sample) ==
    Stages(normalize_word(query), d, max_results, synonym_check_limit, sample)

(***************************************************************************)
(* The size label of the two web pages.                                    *)
(***************************************************************************)
\* {% if dictionary_size >= 100000 %}Massive{% elif dictionary_size >= 2500 %}
\* Expanded{% else %}Basic{% endif %}
template_dictionary_type(dictionary_size) ==
    IF dictionary_size >= 100000 THEN "Massive"
    ELSE IF dictionary_size >= 2500 THEN "Expanded"
    ELSE "Basic"

\* mutant of footer_dictionary_type: the lower threshold is exclusive
footer_dictionary_type_exclusive(n) ==
    IF n >= 100000 THEN "massive" ELSE IF n > 2500 THEN "expanded" ELSE "basic"

\* "massive" if len(dictionary) >= 100000 else "expanded" if len(dictionary)
\* >= 2500 else "basic"
footer_dictionary_type(n) ==
    IF n >= 100000 THEN "massive" ELSE IF n >= 2500 THEN "expanded" ELSE "basic"

(***************************************************************************)
(* The lookups of the three front ends.  A request parameter is <<>> when  *)
(* absent and <<v>> when given with value v.                               *)
(***************************************************************************)
\* request.args.get(name, default)
args_get(arg, default) == IF arg = <<>> THEN default ELSE arg[1]

QueryArgs == {<<>>} \cup {<<q>> : q \in Queries}

\* the result counts a client of /api/search sends
MaxResultsArgs == {<<>>, <<0>>, <<1>>}

\* st.selectbox("Max results:", [1, 2, 3, 5, 10], index=2)
SelectboxOptions == {1, 2, 3, 5, 10}

\* the options a user of the model picks: 1, 2 and 10 (on the dictionaries
\* of the model, which list a few headwords, 3 and 5 return what 10 returns)
PickedOptions == SelectboxOptions \ {3, 5}

NoRequest == [query |-> <<>>, max_results |-> 0]

\* the parts of the state a specification does not use
SearchIdle ==
    /\ frontend = "none"
    /\ request = NoRequest
    /\ stage = "none"
    /\ sampled_keys = {}
    /\ status = "idle"
    /\ results = <<>>

LabelIdle == flask_label = "none" /\ streamlit_label = "none"

NoFile == [kind |-> "missing", members |-> <<>>]

NoEntry == [headword |-> <<>>, pos |-> "", synonyms |-> <<>>]

MassiveIdle ==
    /\ massive_dictionary = <<>>
    /\ entries_done = 0
    /\ attempt_count = 0
    /\ last_entry = NoEntry
    /\ stored_key = <<>>

ExpandIdle ==
    /\ input_file = NoFile
    /\ target_count = 0
    /\ loaded = <<>>
    /\ output_file = NoFile
    /\ expand_pc = "off"
    /\ returned_count = 0
    /\ MassiveIdle

LoadIdle == fs = <<>> /\ load_pc = "off"

NoPadded == [key |-> <<>>, entry |-> <<>>]

StartIdle == program = "none" /\ process = "off" /\ last_padded = NoPadded

NoGenerated == [returned |-> FALSE, entry |-> [synonyms |-> <<>>]]

NoExtracted == [word |-> <<>>, response |-> <<>>, entry |-> <<>>]

PipeIdle ==
    /\ words = <<>>
    /\ batch_size = 0
    /\ batches = <<>>
    /\ output = <<>>
    /\ processed_entries = 0
    /\ errors = {}
    /\ last_extracted = NoExtracted
    /\ pipe_pc = "off"

CommonIdle ==
    /\ files_found = 0
    /\ token_counter = <<>>
    /\ top_n = 0
    /\ fallback = FALSE
    /\ top_words = <<>>
    /\ common_pc = "off"

GenIdle == generator = "none" /\ generated = NoGenerated /\ PipeIdle /\ CommonIdle

NoLine == [eof |-> FALSE, text |-> <<>>]

NoOut == [searched |-> FALSE, said |-> "none", results |-> <<>>, shown |-> 0]

CliIdle ==
    /\ cli_mode = "none"
    /\ cli_pc = "off"
    /\ cli_line = NoLine
    /\ cli_out = NoOut
    /\ ntotal = 0
    /\ indices = <<>>

MoreIdle == StartIdle /\ GenIdle /\ CliIdle

InitSearch ==
    /\ dictionary \in Dictionaries
    /\ SearchIdle
    /\ MoreIdle
    /\ LabelIdle
    /\ ExpandIdle
    /\ LoadIdle

\* mutant of Finish: the lookup keeps what it found under a new key
Finish_caching(out, sample) ==
    LET outcome == out
    IN  /\ status' = IF outcome.raised THEN "raised" ELSE "returned"
        /\ stage' = outcome.stage
        /\ results' = outcome.results
        /\ sampled_keys' = IF outcome.stage = "fuzzy" THEN sample ELSE {}
        /\ dictionary' = IF outcome.results # <<>>
                         THEN [dictionary EXCEPT !.post = @ + 1] ELSE dictionary
        /\ UNCHANGED <<expandVars, loadVars, moreVars>>

\* a call of search_synonyms ends; sampled_keys is set on the fuzzy path only
Finish(out, sample) ==
    LET outcome == out
    IN  /\ status' = IF outcome.raised THEN "raised" ELSE "returned"
        /\ stage' = outcome.stage
        /\ results' = outcome.results
        /\ sampled_keys' = IF outcome.stage = "fuzzy" THEN sample ELSE {}
        /\ UNCHANGED <<dictionary, expandVars, loadVars, moreVars>>

\* no call of search_synonyms: the handler answers at once
Answer(how) ==
    /\ status' = how
    /\ stage' = "none"
    /\ results' = <<>>
    /\ sampled_keys' = {}
    /\ UNCHANGED <<dictionary, expandVars, loadVars, moreVars>>

\* src/simple_query.py main / interactive_search: a non-empty query, default count
SimpleQuery(q) ==
    /\ status = "idle"
    /\ q # <<>>
    /\ frontend' = "simple_query"
    /\ request' = [query |-> q, max_results |-> 3]
    /\ Finish(simple_query_search_synonyms(q, dictionary, 3), ListedPositions(dictionary))
    /\ UNCHANGED labelVars

\* src/simple_app.py main: a loaded (non-empty) dictionary, the button pressed
\* with a non-empty query, the count chosen in the selectbox; the footer ends
\* the page
SimpleApp(q, n, sample) ==
    /\ status = "idle"
    /\ Size(dictionary) > 0
    /\ q # <<>>
    /\ frontend' = "simple_app"
    /\ request' = [query |-> q, max_results |-> n]
    /\ Finish(simple_app_search_synonyms(q, dictionary, n, sample), sample)
    /\ streamlit_label' = footer_dictionary_type(Size(dictionary))
    /\ UNCHANGED flask_label

\* src/simple_app.py main without a search (no query typed, or the button not
\* pressed): the page and its footer
SimpleAppPage(n) ==
    /\ status = "idle"
    /\ Size(dictionary) > 0
    /\ frontend' = "simple_app"
    /\ request' = [query |-> <<>>, max_results |-> n]
    /\ Answer("rendered")
    /\ streamlit_label' = footer_dictionary_type(Size(dictionary))
    /\ UNCHANGED flask_label

\* src/api/index.py index(): the page route; it searches only a non-empty
\* query, and renders HTML_TEMPLATE with dictionary_size = len(dictionary).
\* The module has padded its dictionary to 50 entries or more.
index(query_arg, sample) ==
    LET query == args_get(query_arg, <<>>)
    IN  /\ status = "idle"
        /\ Size(dictionary) >= 50
        /\ frontend' = "api_index"
        /\ request' = [query |-> query, max_results |-> 5]
        /\ IF query # <<>>
           THEN Finish(search_synonyms(query, dictionary, 5, sample), sample)
           ELSE Answer("rendered")
        /\ flask_label' = template_dictionary_type(Size(dictionary))
        /\ UNCHANGED streamlit_label

\* src/api/index.py api_search(): GET /api/search
api_search(query_arg, max_results_arg, sample) ==
    LET query == args_get(query_arg, <<>>)
        max_results == args_get(max_results_arg, 5)
    IN  /\ status = "idle"
        /\ Size(dictionary) >= 50
        /\ frontend' = "api_search"
        /\ request' = [query |-> query, max_results |-> max_results]
        /\ IF query = <<>>
           THEN Answer("http400")
           ELSE Finish(search_synonyms(query, dictionary, max_results, sample), sample)
        /\ UNCHANGED labelVars

\* the response is out; the front end waits for the next query
NextRequest ==
    /\ status # "idle"
    /\ status' = "idle"
    /\ frontend' = "none"
    /\ request' = NoRequest
    /\ stage' = "none"
    /\ sampled_keys' = {}
    /\ results' = <<>>
    /\ flask_label' = "none"
    /\ streamlit_label' = "none"
    /\ UNCHANGED <<dictionary, expandVars, loadVars, moreVars>>

NextSearch ==
    \/ \E q \in Queries : SimpleQuery(q)
    \/ \E q \in Queries, n \in PickedOptions, s \in Samples(dictionary) :
          SimpleApp(q, n, s)
    \/ \E n \in PickedOptions : SimpleAppPage(n)
    \/ \E qa \in QueryArgs, s \in Samples(dictionary) : index(qa, s)
    \/ \E qa \in QueryArgs, na \in MaxResultsArgs, s \in Samples(dictionary) :
          api_search(qa, na, s)
    \/ NextRequest

SpecSearch == InitSearch /\ [][NextSearch]_vars

(***************************************************************************)
(* The two pages over dictionaries of the sizes at which the label can     *)
(* change: the page route without a query, and the Streamlit page without  *)
(* a search.                                                               *)
(***************************************************************************)
\* entry counts around 0, the padding floor and the two thresholds
LabelSizes ==
    (0..Window) \cup UNION {(c - Window)..(c + Window) : c \in {50, 2500, 100000}}

InitLabel ==
    /\ dictionary \in {[pre |-> n, entries |-> <<>>, post |-> 0] : n \in LabelSizes}
    /\ SearchIdle
    /\ MoreIdle
    /\ LabelIdle
    /\ ExpandIdle
    /\ LoadIdle

NextLabel ==
    \/ index(<<>>, {})
    \/ \E n \in PickedOptions : SimpleAppPage(n)
    \/ NextRequest

SpecLabel == InitLabel /\ [][NextLabel]_vars

(***************************************************************************)
(* expand_dictionary.  A file is missing, or holds bytes that are not      *)
(* UTF-8, or text that is not JSON, or a JSON object: the list of its      *)
(* members <<key, value>> in the order written (a key may be written       *)
(* twice).  A string of a JSON text may hold any code point, a lone        *)
(* surrogate included (written as an escape, \ud800).  A loaded mapping is *)
(* a list of <<key, value>> with pairwise distinct keys, in insertion      *)
(* order.                                                                  *)
(***************************************************************************)
FileKeys == {<<97, 98>>, <<98>>, <<65>>, <<97, 55296>>}

FileValues ==
    { [headword |-> <<97, 98>>, pos |-> "noun", synonyms |-> << <<98>>, <<65, 97>> >>],
      [headword |-> <<98>>,     pos |-> "noun", synonyms |-> << <<98, 98>> >>] }

Members == FileKeys \X FileValues

InputFiles ==
    {[kind |-> k, members |-> <<>>] : k \in {"missing", "not_utf8", "malformed"}}
    \cup {[kind |-> "json", members |-> ms] :
             ms \in UNION {[1..k -> Members] : k \in 0..MaxMembers}}

\* what generate_entry() can return
GeneratedEntries ==
    { [headword |-> <<98>>,     pos |-> "verb", synonyms |-> << <<97>>, <<98, 97>>, <<97, 97>> >>],
      [headword |-> <<98, 97>>, pos |-> "noun", synonyms |-> << <<97>>, <<98>>, <<97, 98>> >>],
      [headword |-> <<97, 97>>, pos |-> "adjective", synonyms |-> << <<97>>, <<98>>, <<65>> >>] }

MappingKeys(m) == {m[i][1] : i \in 1..Len(m)}

\* dict[key] = value: a new key goes last, a known key keeps its place
SetItem(m, key, value) ==
    IF key \in MappingKeys(m)
    THEN [i \in 1..Len(m) |-> IF m[i][1] = key THEN <<key, value>> ELSE m[i]]
    ELSE Append(m, <<key, value>>)

\* json.load of an object: the members are inserted in the order written
RECURSIVE InsertAll(_, _)
InsertAll(m, members) ==
    IF members = <<>> THEN m
    ELSE InsertAll(SetItem(m, Head(members)[1], Head(members)[2]), Tail(members))

json_load(file) == InsertAll(<<>>, file.members)

\* the utf-8 codec of the output file encodes every code point but a surrogate
Utf8Encodes(str) == \A i \in 1..Len(str) : str[i] < 55296 \/ str[i] > 57343

EntryStrings(entry) ==
    {entry.headword} \cup {entry.synonyms[i] : i \in 1..Len(entry.synonyms)}

\* open(output_file, 'w', encoding='utf-8') and json.dump(dictionary, f,
\* ensure_ascii=False, indent=2): the items in dict order, every character
\* written as itself.  A character the codec cannot encode raises
\* UnicodeEncodeError and leaves the text written so far, which is not JSON.
json_dump(m) ==
    IF \A i \in 1..Len(m) :
          Utf8Encodes(m[i][1]) /\ \A str \in EntryStrings(m[i][2]) : Utf8Encodes(str)
    THEN [kind |-> "json", members |-> m]
    ELSE [kind |-> "malformed", members |-> <<>>]

\* load_existing_dictionary: the parsed file, or {} when the file is missing
\* (FileNotFoundError) or is not JSON (JSONDecodeError)
load_existing_dictionary(file) ==
    IF file.kind = "json" THEN json_load(file) ELSE <<>>

\* the lists of k entries the loop of expand_dictionary can add to m: each a
\* generated entry whose headword is not in existing_headwords
RECURSIVE Additions(_, _)
Additions(m, k) ==
    IF k = 0 THEN {m}
    ELSE UNION {Additions(Append(m, <<e.headword, e>>), k - 1) :
                   e \in {g \in GeneratedEntries : g.headword \notin MappingKeys(m)}}

InitExpand ==
    /\ dictionary = [pre |-> 0, entries |-> <<>>, post |-> 0]
    /\ SearchIdle
    /\ MoreIdle
    /\ LabelIdle
    /\ LoadIdle
    /\ input_file \in InputFiles
    /\ target_count = 0
    /\ loaded = <<>>
    /\ output_file = NoFile
    /\ expand_pc = "start"
    /\ returned_count = 0
    /\ MassiveIdle

\* expand_dictionary(input_file, output_file, target_count).  Bytes that are
\* not UTF-8 raise UnicodeDecodeError in load_existing_dictionary, which does
\* not catch it: nothing is loaded and nothing is written.
expand_dictionary(target) ==
    LET start == load_existing_dictionary(input_file)
        entries_to_add == Max({0, target - Len(start)})
    IN  /\ expand_pc = "start"
        /\ target_count' = target
        /\ IF input_file.kind = "not_utf8"
           THEN /\ expand_pc' = "load_raised"
                /\ UNCHANGED <<loaded, output_file, returned_count>>
           ELSE /\ loaded' = start
                /\ \E final \in Additions(start, entries_to_add) :
                      /\ output_file' = json_dump(final)
                      /\ IF json_dump(final).kind = "json"
                         THEN expand_pc' = "done" /\ returned_count' = Len(final)
                         ELSE expand_pc' = "dump_raised" /\ UNCHANGED returned_count
        /\ UNCHANGED <<dictionary, searchVars, labelVars, input_file, loadVars, moreVars,
                       massiveVars>>

NextExpand == \E target \in 0..MaxTarget : expand_dictionary(target)

SpecExpand == InitExpand /\ [][NextExpand]_vars

(***************************************************************************)
(* load_dictionary of src/api/index.py.  all_paths lists, for each of the  *)
(* three dictionary files in turn, the file in the current directory, in   *)
(* api/ and in the parent directory: nine candidates.  fs[i] tells what is *)
(* at candidate i: nothing, bytes that are not UTF-8, text that is not     *)
(* JSON, or a dictionary (of 45 + i entries, to tell the candidates apart  *)
(* and to have sizes on both sides of the 50 entries the module pads to).  *)
(***************************************************************************)
dict_files == <<"yoruba_synonyms_massive.json", "yoruba_synonyms_expanded.json",
                "yoruba_synonyms_static.json">>

all_paths ==
    [i \in 1..(3 * Len(dict_files)) |->
        <<CASE i % 3 = 1 -> "" [] i % 3 = 2 -> "api" [] OTHER -> "..",
          dict_files[(i + 2) \div 3]>>]

FileStates == {"missing", "not_utf8", "malformed", "valid"}

FileContent(i) == [pre |-> 45 + i, entries |-> <<>>, post |-> 0]

create_minimal_dictionary ==
    << [headword |-> <<105, 108, 233>>, pos |-> "noun",
        synonyms |-> <<<<105, 108, 7865, 768>>,
                       <<105, 98, 249, 103, 98, 233>>,
                       <<97, 102, 105, 110>>,
                       <<224, 224, 102, 105, 110>>,
                       <<236, 100, 237>>>>],
       [headword |-> <<7885, 109, 7885>>, pos |-> "noun",
        synonyms |-> <<<<7885, 109, 7885, 98, 237, 98, 237>>,
                       <<224, 98, 237, 107, 7865, 769>>,
                       <<97, 114, 7885, 769, 109, 7885, 100, 7885, 769, 109, 7885>>,
                       <<7885, 109, 7885, 107, 249, 110, 114, 105, 110>>,
                       <<7885, 109, 7885, 98, 236, 110, 114, 105, 110>>>>],
       [headword |-> <<111, 109, 105>>, pos |-> "noun",
        synonyms |-> <<<<236, 100, 224, 100, 242>>,
                       <<236, 107, 242, 114, 242>>,
                       <<97, 100, 225, 103, 250, 110>>,
                       <<111, 100, 111>>,
                       <<111, 100, 242>>>>],
       [headword |-> <<100, 225, 114, 97>>, pos |-> "adjective",
        synonyms |-> <<<<112, 7865, 768, 108, 7865, 769>>,
                       <<114, 7865, 119, 224>>,
                       <<116, 242, 243, 116, 7885, 769>>,
                       <<100, 225, 114, 97, 100, 225, 114, 97>>,
                       <<7779, 224, 110>>>>],
       [headword |-> <<106, 7865>>, pos |-> "verb",
        synonyms |-> <<<<103, 98, 224>>,
                       <<109, 117>>,
                       <<102, 7865, 769>>,
                       <<103, 98, 233>>,
                       <<109, 250>>>>] >>

Loaded(d) == [raised |-> FALSE, data |-> d]
LoadRaised == [raised |-> TRUE, data |-> [pre |-> 0, entries |-> <<>>, post |-> 0]]

\* load_dictionary, from candidate i on: the first candidate that opens and
\* parses is returned; FileNotFoundError (nothing there) and JSONDecodeError
\* (text that is not JSON) pass to the next candidate; UnicodeDecodeError
\* (bytes that are not UTF-8) is neither and leaves the function; after the
\* last candidate the minimal dictionary is created
RECURSIVE load_dictionary(_, _)
load_dictionary(files, i) ==
    IF i > Len(all_paths)
    THEN Loaded([pre |-> 0, entries |-> create_minimal_dictionary, post |-> 0])
    ELSE IF files[i] = "valid" THEN Loaded(FileContent(i))
    ELSE IF files[i] = "not_utf8" THEN LoadRaised
    ELSE load_dictionary(files, i + 1)

InitLoad ==
    /\ dictionary = [pre |-> 0, entries |-> <<>>, post |-> 0]
    /\ SearchIdle
    /\ MoreIdle
    /\ LabelIdle
    /\ ExpandIdle
    /\ fs \in [1..Len(all_paths) -> FileStates]
    /\ load_pc = "start"

\* a call of load_dictionary(): dictionary holds what it returned
LoadDictionary ==
    LET out == load_dictionary(fs, 1)
    IN  /\ load_pc = "start"
        /\ load_pc' = IF out.raised THEN "raised" ELSE "loaded"
        /\ dictionary' = out.data
        /\ UNCHANGED <<searchVars, labelVars, expandVars, genVars, cliVars, fs, moreVars>>

NextLoad == LoadDictionary

SpecLoad == InitLoad /\ [][NextLoad]_vars

(***************************************************************************)
(* The start of the four front ends that read files: the web API module    *)
(* (load_dictionary, then the padding loop), the Streamlit page of         *)
(* simple_app.py, the dictionary CLI simple_query.py and the vector CLI    *)
(* query.py.  fs lists what is at each file the program reads, in the      *)
(* order it reads them.                                                    *)
(***************************************************************************)
Programs == {"api", "simple_app", "simple_query", "query"}

EmptyDictionary == [pre |-> 0, entries |-> <<>>, post |-> 0]

\* simple_app.py main: dictionary_files
dictionary_files == <<"yoruba_synonyms_massive.json", "yoruba_synonyms_expanded.json",
                      "yoruba_synonyms_static.json">>

\* simple_app.py load_dictionary(dict_files), from file i on: the first file
\* that opens and parses; FileNotFoundError and JSONDecodeError go on to the
\* next file; UnicodeDecodeError is not caught; {} after the last file
RECURSIVE simple_app_load_dictionary(_, _)
simple_app_load_dictionary(files, i) ==
    IF i > Len(dictionary_files) THEN Loaded(EmptyDictionary)
    ELSE IF files[i] = "valid" THEN Loaded(FileContent(i))
    ELSE IF files[i] = "not_utf8" THEN LoadRaised
    ELSE simple_app_load_dictionary(files, i + 1)

\* mutant of simple_query_load_dictionary: a file that cannot be loaded gives {}
simple_query_load_dictionary_empty(file) ==
    CASE file = "valid" -> "loaded"
      [] file \in {"missing", "malformed"} -> "loaded"
      [] OTHER -> "raised"

\* simple_query.py load_dictionary(dict_file): FileNotFoundError and
\* JSONDecodeError print a message and exit(1); UnicodeDecodeError is not caught
simple_query_load_dictionary(file) ==
    CASE file = "valid" -> "loaded"
      [] file \in {"missing", "malformed"} -> "exit"
      [] OTHER -> "raised"

\* the files of query.py, in the order load_resources reads them
resource_files == <<"index_file", "texts_file", "entries_file", "model_info.json">>

\* query.py load_resources.  faiss.read_index raises RuntimeError for a file
\* it cannot open or read; np.load raises FileNotFoundError for a missing
\* file and ValueError or UnpicklingError for one it cannot read; only
\* FileNotFoundError is caught, by exit(1).  model_info.json is opened when no
\* model name is given: missing or not JSON, the default name is used.
RECURSIVE load_resources(_, _)
load_resources(files, i) ==
    IF i > Len(resource_files) THEN "loaded"
    ELSE IF files[i] = "valid" THEN load_resources(files, i + 1)
    ELSE IF i = 1 THEN "raised"
    ELSE IF i = 4
         THEN IF files[i] = "not_utf8" THEN "raised" ELSE load_resources(files, i + 1)
    ELSE IF files[i] = "missing" THEN "exit"
    ELSE "raised"

\* words generate_yoruba_word() can return and the model names: "omi" (a
\* headword of the minimal dictionary), "ba", "a", "jẹ", "mu"
GeneratedWords == {<<111, 109, 105>>, <<98, 97>>}

\* outcomes of the 3 to 5 calls of generate_yoruba_word() for the synonyms
SynonymDraws ==
    { << <<98, 97>>, <<98, 97>>, <<98, 97>> >>,
      << <<97>>, <<98, 97>>, <<97>>, <<111, 109, 105>> >>,
      << <<97>>, <<98, 97>>, <<111, 109, 105>>, <<106, 7865>>, <<109, 117>> >> }

parts_of_speech == {"noun", "verb", "adjective"}

\* if synonym not in synonyms: synonyms.append(synonym), over the draws
RECURSIVE AppendNew(_, _)
AppendNew(synonyms, draws) ==
    IF draws = <<>> THEN synonyms
    ELSE AppendNew(IF \E i \in 1..Len(synonyms) : synonyms[i] = Head(draws)
                   THEN synonyms ELSE Append(synonyms, Head(draws)),
                   Tail(draws))

\* the files a program finds at its start.  The web API has nine candidates:
\* at most two of them hold something, one candidate and the next.
StartFiles(prog) ==
    CASE prog = "api" ->
            {[i \in 1..Len(all_paths) |->
                 IF i = j THEN st[1] ELSE IF i = j + 1 THEN st[2] ELSE "missing"] :
                 j \in 1..Len(all_paths), st \in FileStates \X FileStates}
      [] prog = "simple_app" -> [1..Len(dictionary_files) -> FileStates]
      [] prog = "simple_query" -> [1..1 -> FileStates]
      [] prog = "query" ->
            {f \in [1..Len(resource_files) -> FileStates] :
                \A i \in 1..3 : f[i] # "not_utf8"}

InitStart ==
    /\ dictionary = EmptyDictionary
    /\ SearchIdle
    /\ LabelIdle
    /\ ExpandIdle
    /\ GenIdle
    /\ CliIdle
    /\ program \in Programs
    /\ process = "starting"
    /\ last_padded = NoPadded
    /\ fs \in StartFiles(program)
    /\ load_pc = "start"

\* src/api/index.py, line 91: dictionary = load_dictionary(); an exception
\* ends the import of the module; 50 entries or more need no padding
ImportModule ==
    LET out == load_dictionary(fs, 1)
    IN  /\ program = "api"
        /\ process = "starting"
        /\ load_pc' = IF out.raised THEN "raised" ELSE "loaded"
        /\ dictionary' = out.data
        /\ process' = IF out.raised THEN "crashed"
                      ELSE IF Size(out.data) < 50 THEN "padding" ELSE "serving"
        /\ UNCHANGED <<searchVars, labelVars, expandVars, genVars, cliVars, fs, program, last_padded>>

\* mutant of AlreadyStored: the padding loop without its membership test
AlreadyStored_never(d, headword) == FALSE

\* if headword in dictionary: continue
AlreadyStored(d, headword) == InDictionary(d, headword)

\* dictionary[key] = entry: the entry of a key the dictionary has is replaced
\* where it is, another key is added at the end
StoreEntry(d, key, entry) ==
    IF InDictionary(d, key)
    THEN [d EXCEPT !.entries =
             [j \in 1..Len(@) |-> IF @[j].headword = key THEN entry ELSE @[j]]]
    ELSE [d EXCEPT !.entries = Append(@, entry)]

\* the entry the padding loop builds for a headword
PaddedEntry(headword, pos, draws) ==
    [headword |-> headword, pos |-> pos, synonyms |-> AppendNew(<<>>, draws)]

\* one turn of `while len(dictionary) < 50`: a generated headword that is in
\* the dictionary is skipped; another is stored under itself with a part of
\* speech and the synonyms drawn, each kept once.  A headword the model does
\* not name (word = <<>>) is new to the dictionary; it is written as the
\* filler key of its position and its entry is kept in last_padded only.
PadStep(word, pos, draws) ==
    /\ program = "api"
    /\ process = "padding"
    /\ Size(dictionary) < 50
    /\ IF word = <<>>
       THEN LET headword == FillerKey(Size(dictionary) + 1)
            IN  /\ dictionary' = [dictionary EXCEPT !.post = @ + 1]
                /\ last_padded' = [key |-> headword,
                                   entry |-> PaddedEntry(headword, pos, draws)]
       ELSE /\ dictionary.post = 0
            /\ IF AlreadyStored(dictionary, word)
               THEN UNCHANGED <<dictionary, last_padded>>
               ELSE /\ dictionary' =
                          StoreEntry(dictionary, word, PaddedEntry(word, pos, draws))
                    /\ last_padded' = [key |-> word,
                                       entry |-> PaddedEntry(word, pos, draws)]
    /\ process' = IF Size(dictionary') < 50 THEN "padding" ELSE "serving"
    /\ UNCHANGED <<searchVars, labelVars, expandVars, genVars, cliVars, loadVars, program>>

\* simple_app.py main: load_dictionary(dictionary_files); an empty dictionary
\* shows an error and returns before the search interface
StartSimpleApp ==
    LET out == simple_app_load_dictionary(fs, 1)
    IN  /\ program = "simple_app"
        /\ process = "starting"
        /\ load_pc' = IF out.raised THEN "raised" ELSE "loaded"
        /\ dictionary' = out.data
        /\ process' = IF out.raised THEN "crashed"
                      ELSE IF Size(out.data) = 0 THEN "stopped" ELSE "serving"
        /\ UNCHANGED <<searchVars, labelVars, expandVars, genVars, cliVars, fs, program, last_padded>>

\* simple_query.py main / interactive_search: load_dictionary(dict_file)
StartSimpleQuery ==
    LET out == simple_query_load_dictionary(fs[1])
    IN  /\ program = "simple_query"
        /\ process = "starting"
        /\ load_pc' = IF out = "loaded" THEN "loaded" ELSE "raised"
        /\ dictionary' = IF out = "loaded" /\ fs[1] = "valid"
                         THEN FileContent(1) ELSE EmptyDictionary
        /\ process' = CASE out = "loaded" -> "serving"
                        [] out = "exit" -> "exited"
                        [] OTHER -> "crashed"
        /\ UNCHANGED <<searchVars, labelVars, expandVars, genVars, cliVars, fs, program, last_padded>>

\* query.py main / interactive_search: load_resources(...)
StartQuery ==
    LET out == load_resources(fs, 1)
    IN  /\ program = "query"
        /\ process = "starting"
        /\ load_pc' = IF out = "loaded" THEN "loaded" ELSE "raised"
        /\ process' = CASE out = "loaded" -> "serving"
                        [] out = "exit" -> "exited"
                        [] OTHER -> "crashed"
        /\ UNCHANGED <<dictionary, searchVars, labelVars, expandVars, genVars, cliVars, fs, program, last_padded>>

NextStart ==
    \/ ImportModule
    \/ \E w \in GeneratedWords \cup {<<>>}, pos \in parts_of_speech, d \in SynonymDraws :
          PadStep(w, pos, d)
    \/ StartSimpleApp
    \/ StartSimpleQuery
    \/ StartQuery

SpecStart == InitStart /\ [][NextStart]_vars

(***************************************************************************)
(* The generation code: the padding of the web API, validate_entry of      *)
(* generate_entries.py, generate_synonyms of scripts/expand_dictionary.py  *)
(* and generate_enhanced_synonyms of scripts/expand_massive_dictionary.py. *)
(* The outcomes of the random calls are arguments.  The word lists are     *)
(* excerpts of six words (one more from each ADDITIONAL_ list).            *)
(***************************************************************************)
\* "omi", "ara", "igi", "ẹja", "ẹran", "ẹyin"
YORUBA_NOUNS ==
    << <<111, 109, 105>>, <<97, 114, 97>>, <<105, 103, 105>>, <<7865, 106, 97>>,
       <<7865, 114, 97, 110>>, <<7865, 121, 105, 110>> >>

\* "jẹ", "mu", "fi", "pa", "sun", "gba"
YORUBA_VERBS ==
    << <<106, 7865>>, <<109, 117>>, <<102, 105>>, <<112, 97>>, <<115, 117, 110>>,
       <<103, 98, 97>> >>

\* "pupa", "giga", "kan", "rere", "gidi", "gbogbo"
YORUBA_ADJECTIVES ==
    << <<112, 117, 112, 97>>, <<103, 105, 103, 97>>, <<107, 97, 110>>,
       <<114, 101, 114, 101>>, <<103, 105, 100, 105>>, <<103, 98, 111, 103, 98, 111>> >>

\* "ọjà"; "yìn"; "líle"
ADDITIONAL_YORUBA_NOUNS == << <<7885, 106, 224>> >>
ADDITIONAL_YORUBA_VERBS == << <<121, 236, 110>> >>
ADDITIONAL_YORUBA_ADJECTIVES == << <<108, 237, 108, 101>> >>

\* "a", "o"
YORUBA_PREFIXES == << <<97>>, <<111>> >>

\* "ní", "jẹ"
YORUBA_SUFFIXES == << <<110, 237>>, <<106, 7865>> >>

\* base_lists.get(pos, YORUBA_NOUNS)
relevant_list(pos) ==
    CASE pos = "noun" -> YORUBA_NOUNS
      [] pos = "verb" -> YORUBA_VERBS
      [] pos = "adjective" -> YORUBA_ADJECTIVES
      [] OTHER -> YORUBA_NOUNS

enhanced_relevant_list(pos) ==
    CASE pos = "noun" -> YORUBA_NOUNS \o ADDITIONAL_YORUBA_NOUNS
      [] pos = "verb" -> YORUBA_VERBS \o ADDITIONAL_YORUBA_VERBS
      [] pos = "adjective" -> YORUBA_ADJECTIVES \o ADDITIONAL_YORUBA_ADJECTIVES
      [] OTHER -> YORUBA_NOUNS \o ADDITIONAL_YORUBA_NOUNS

\* word in list
Member(list, word) == \E i \in 1..Len(list) : list[i] = word

\* while len(synonyms) < num_synonyms [and attempt_count < 30]:
\*     synonym = random.choice(relevant_list)
\*     if synonym != headword and synonym not in synonyms: synonyms.append(synonym)
\* choices are the outcomes of random.choice, attempts the turns the loop may
\* still take (-1: no limit).  When the outcomes given run out the loop has
\* not ended.
RECURSIVE ChooseFrom(_, _, _, _, _, _)
ChooseFrom(synonyms, num_synonyms, list, headword, choices, attempts) ==
    IF Len(synonyms) >= num_synonyms \/ attempts = 0
    THEN [ended |-> TRUE, synonyms |-> synonyms]
    ELSE IF choices = <<>> THEN [ended |-> FALSE, synonyms |-> synonyms]
    ELSE LET synonym == list[Head(choices)]
         IN  ChooseFrom(IF synonym # headword /\ ~Member(synonyms, synonym)
                        THEN Append(synonyms, synonym) ELSE synonyms,
                        num_synonyms, list, headword, Tail(choices), attempts - 1)

\* base + random.choice(YORUBA_SUFFIXES), base the headword without its last
\* or without its first character
SuffixVariation(headword, cut, suffix) ==
    (IF cut = "last" THEN SubSeq(headword, 1, Len(headword) - 1) ELSE Tail(headword))
        \o YORUBA_SUFFIXES[suffix]

\* scripts/expand_dictionary.py generate_synonyms(headword, pos); rnd holds
\* num_synonyms, the variation taken ("none", "last", "first") and its
\* suffix, the choices from the list, and the word generated at the end
\* (<<>>: none, random.random() >= 0.4)
generate_synonyms(headword, pos, rnd) ==
    LET first == IF rnd.variation # "none" /\ Len(headword) > 3
                 THEN << SuffixVariation(headword, rnd.variation, rnd.suffix) >>
                 ELSE <<>>
        loop == ChooseFrom(first, rnd.num_synonyms, relevant_list(pos), headword,
                           rnd.choices, -1)
        synonyms == loop.synonyms
    IN  IF ~loop.ended THEN [returned |-> FALSE, synonyms |-> synonyms]
        ELSE [returned |-> TRUE,
              synonyms |->
                 IF /\ rnd.new_word # <<>>
                    /\ Len(synonyms) < rnd.num_synonyms
                    /\ rnd.new_word # headword
                    /\ ~Member(synonyms, rnd.new_word)
                 THEN Append(synonyms, rnd.new_word) ELSE synonyms]

\* the limit of attempt_count in generate_enhanced_synonyms
attempt_limit == 30

\* for var in variations: if var != headword and var not in synonyms: append;
\* and the last loop of generate_enhanced_synonyms, over the generated words
RECURSIVE AppendOthers(_, _, _, _)
AppendOthers(synonyms, new_words, headword, num_synonyms) ==
    IF new_words = <<>> \/ Len(synonyms) >= num_synonyms THEN synonyms
    ELSE AppendOthers(IF Head(new_words) # headword /\ ~Member(synonyms, Head(new_words))
                      THEN Append(synonyms, Head(new_words)) ELSE synonyms,
                      Tail(new_words), headword, num_synonyms)

\* scripts/expand_massive_dictionary.py generate_enhanced_synonyms(headword,
\* pos); rnd holds num_synonyms, the suffix variation and its suffix, the
\* prefix of the prefix variation (0: none), the choices from the list and the
\* words generate_enhanced_yoruba_word() returns in the last loop
generate_enhanced_synonyms(headword, pos, rnd) ==
    LET variations ==
            IF Len(headword) > 3
            THEN (IF rnd.variation # "none"
                  THEN << SuffixVariation(headword, rnd.variation, rnd.suffix) >>
                  ELSE <<>>)
                 \o (IF rnd.prefix = 0 THEN <<>>
                     ELSE IF Member(YORUBA_PREFIXES, <<headword[1]>>)
                     THEN << YORUBA_PREFIXES[rnd.prefix] \o Tail(headword) >>
                     ELSE << YORUBA_PREFIXES[rnd.prefix] \o headword >>)
            ELSE <<>>
        varied == AppendOthers(<<>>, variations, headword, 1 + Len(variations))
        loop == ChooseFrom(varied, rnd.num_synonyms, enhanced_relevant_list(pos),
                           headword, rnd.choices, attempt_limit)
        filled == AppendOthers(loop.synonyms, rnd.new_words, headword, rnd.num_synonyms)
    IN  [returned |-> loop.ended /\ Len(filled) >= rnd.num_synonyms, synonyms |-> filled]

\* s in t, for two strings
Contains(t, s) ==
    \E i \in 0..(Len(t) - Len(s)) : SubSeq(t, i + 1, i + Len(s)) = s

LowerString(s) == [i \in 1..Len(s) |-> Lower(s[i])]

\* while len(entry["synonyms"]) < 5: entry["synonyms"].append(entry["synonyms"][0])
RECURSIVE FillToFive(_)
FillToFive(synonyms) ==
    IF Len(synonyms) >= 5 THEN synonyms ELSE FillToFive(Append(synonyms, synonyms[1]))

\* mutant of validate_entry: an empty synonym list is left as it is
validate_entry_keeping_synonyms(entry, headword) ==
    [entry EXCEPT !.headword = IF @ = <<>> THEN headword ELSE @,
                  !.pos = IF @ = "" THEN "noun" ELSE @]

\* generate_entries.py validate_entry(entry, headword); the texts filled in
\* are written as the pair of their fixed part and the headword
validate_entry(entry, headword) ==
    [headword |-> IF entry.headword = <<>>
                     \/ ~Contains(LowerString(entry.headword), LowerString(headword))
                  THEN headword ELSE entry.headword,
     pos |-> IF entry.pos = "" THEN "noun" ELSE entry.pos,
     synonyms |-> FillToFive(IF entry.synonyms = <<>> THEN <<headword>>
                             ELSE entry.synonyms),
     definition |-> IF entry.definition = <<>>
                    THEN <<"A Yoruba word: ", headword>> ELSE entry.definition,
     example |-> [yo |-> IF entry.example.yo = <<>>
                         THEN <<headword, ".">> ELSE entry.example.yo,
                  en |-> IF entry.example.en = <<>>
                         THEN <<headword, ".">> ELSE entry.example.en]]

\* the headwords given to the generators: "jẹ", "pupa", "abata"
GenHeadwords == {<<106, 7865>>, <<112, 117, 112, 97>>, <<97, 98, 97, 116, 97>>}

\* outcomes of the calls of random.choice(relevant_list): positions in the list
ChoiceRuns ==
    { <<1, 2, 3, 4, 5, 6>>, <<1, 1, 2, 2, 3, 4, 5>>, <<6, 5, 4, 3, 2, 1, 1>>, <<1, 2>>,
      [i \in 1..attempt_limit |-> 1] }

SynonymRandoms ==
    [num_synonyms : 3..5, variation : {"none", "last", "first"},
     suffix : 1..Len(YORUBA_SUFFIXES), choices : ChoiceRuns,
     new_word : {<<>>, <<98, 97>>}]

EnhancedRandoms ==
    [num_synonyms : 4..7, variation : {"none", "last"},
     suffix : {1}, prefix : 0..Len(YORUBA_PREFIXES),
     choices : ChoiceRuns \cup {<<7, 1, 2, 3, 4, 5, 6>>},
     new_words : { <<>>, << <<98, 97>>, <<98, 97>>, <<109, 117>>, <<97>>, <<98, 97, 98, 97>>,
                            <<102, 105>>, <<112, 97>> >> }]

\* what extract_definition_from_response makes of a response: fields it did
\* not find are empty, the synonyms are stripped, non-empty and distinct
ParsedEntries ==
    [headword : {<<>>, <<106, 7865>>, <<74, 7865, 32, 110, 105>>, <<109, 117>>},
     pos : {"", "verb"},
     synonyms : { <<>>, << <<109, 117>> >>, << <<109, 117>>, <<102, 105>> >>,
                  << <<109, 117>>, <<102, 105>>, <<112, 97>>, <<97>>, <<98, 97>> >>,
                  << <<109, 117>>, <<102, 105>>, <<112, 97>>, <<97>>, <<98, 97>>, <<111>> >> },
     definition : {<<>>, <<"To eat.">>},
     example : {[yo |-> <<>>, en |-> <<>>], [yo |-> <<"Mo jẹ.">>, en |-> <<>>]}]

InitGenerate ==
    /\ dictionary = EmptyDictionary
    /\ SearchIdle
    /\ LabelIdle
    /\ ExpandIdle
    /\ LoadIdle
    /\ StartIdle
    /\ GenIdle
    /\ CliIdle

Generated(by, out) ==
    /\ generator = "none"
    /\ generator' = by
    /\ generated' = out
    /\ UNCHANGED <<dictionary, searchVars, labelVars, expandVars, loadVars, startVars, cliVars,
                   pipeVars, commonVars>>

\* src/api/index.py, lines 103-115: the entry of one turn of the padding loop
PaddingEntry(headword, pos, draws) ==
    Generated("padding", [returned |-> TRUE, entry |-> PaddedEntry(headword, pos, draws)])

\* generate_entries.py, line 187: entry = validate_entry(entry, word); the
\* word it was called with is kept beside the entry it returned
ValidateEntry(entry, headword) ==
    Generated("validate_entry", [returned |-> TRUE, entry |-> validate_entry(entry, headword),
                                 expected |-> headword])

\* scripts/expand_dictionary.py generate_entry: synonyms = generate_synonyms(headword, pos)
GenerateSynonyms(headword, pos, rnd) ==
    LET out == generate_synonyms(headword, pos, rnd)
    IN  Generated("generate_synonyms",
                  [returned |-> out.returned,
                   entry |-> [headword |-> headword, pos |-> pos, synonyms |-> out.synonyms]])

\* scripts/expand_massive_dictionary.py generate_enhanced_entry
GenerateEnhancedSynonyms(headword, pos, rnd) ==
    LET out == generate_enhanced_synonyms(headword, pos, rnd)
    IN  Generated("generate_enhanced_synonyms",
                  [returned |-> out.returned,
                   entry |-> [headword |-> headword, pos |-> pos, synonyms |-> out.synonyms]])

NextGenerate ==
    \/ \E w \in GeneratedWords, pos \in parts_of_speech, d \in SynonymDraws :
          PaddingEntry(w, pos, d)
    \/ \E e \in ParsedEntries, w \in {<<106, 7865>>, <<109, 117>>} : ValidateEntry(e, w)
    \/ \E w \in GenHeadwords, pos \in parts_of_speech, rnd \in SynonymRandoms :
          GenerateSynonyms(w, pos, rnd)
    \/ \E w \in GenHeadwords, pos \in parts_of_speech, rnd \in EnhancedRandoms :
          GenerateEnhancedSynonyms(w, pos, rnd)

SpecGenerate == InitGenerate /\ [][NextGenerate]_vars

(***************************************************************************)
(* The command lines: simple_query.py (dictionary lookup) and query.py     *)
(* (vector search), in interactive and in one-shot (--query) mode, after   *)
(* the files have loaded.  For query.py the listed entries of dictionary   *)
(* are the array entries.                                                  *)
(***************************************************************************)
\* entries as a dictionary file can hold them: with every field, without
\* example, with headword, pos and synonyms only
CliEntryPool ==
    { [headword |-> <<97, 98>>, pos |-> "noun", synonyms |-> << <<98, 98>>, <<65, 97>> >>,
       definition |-> "d", example |-> [yo |-> "y", en |-> "e"]],
      [headword |-> <<97, 98, 98>>, pos |-> "verb", synonyms |-> << <<97, 97>> >>,
       definition |-> "d"],
      [headword |-> <<98>>, pos |-> "noun", synonyms |-> << <<98, 97>> >>] }

CliEntryLists ==
    {es \in UNION {[1..k -> CliEntryPool] : k \in 0..MaxEntries} :
        \A i, j \in 1..Len(es) : i # j => es[i].headword # es[j].headword}

CliDictionaries == {[pre |-> 0, entries |-> es, post |-> 0] : es \in CliEntryLists}

\* what input() can give: end of input (EOFError), or a line: "", " ", "q",
\* "Q", " q ", "quit", "QuIt", "exit", "EXIT", "qu", "ab", "b", "aa", " Ab "
CliLines ==
    { <<>>, <<32>>, <<113>>, <<81>>, <<32, 113, 32>>, <<113, 117, 105, 116>>,
      <<81, 117, 73, 116>>, <<101, 120, 105, 116>>, <<69, 88, 73, 84>>, <<113, 117>>,
      <<97, 98>>, <<98>>, <<97, 97>>, <<32, 65, 98, 32>> }

InputOutcomes == {[eof |-> TRUE, text |-> <<>>]} \cup {[eof |-> FALSE, text |-> l] : l \in CliLines}

\* ('q', 'quit', 'exit')
QuitWords == { <<113>>, <<113, 117, 105, 116>>, <<101, 120, 105, 116>> }

\* top_k=3 of search_synonyms in query.py
default_top_k == 3

\* most vectors an index of the model holds
MaxVectors == 3

\* indices[0] of index.search(query_embedding, top_k): the nearest vectors,
\* each once, and -1 where the index has fewer than top_k vectors
IndexAnswers(n, top_k) ==
    {a \in [1..top_k -> (0..(n - 1)) \cup {-1}] :
        /\ \A i \in 1..top_k : (a[i] = -1) <=> (i > n)
        /\ \A i, j \in 1..top_k : (i # j /\ a[i] # -1) => a[i] # a[j]}

\* distances[0][i]: an inner product in tenths, and the lowest float at a
\* padded position
Distance(idx, i) == IF idx = -1 THEN "-3.4028235e+38" ELSE 10 - i

\* query.py search_synonyms, the loop over indices[0] from position i on:
\*     if idx < len(entries): entry = entries[idx]; results.append(...)
\* entries[idx] with a negative idx counts from the end, and raises IndexError
\* on an empty array
RECURSIVE VectorResults(_, _, _)
VectorResults(entries, answer, i) ==
    IF i > Len(answer) THEN [raised |-> FALSE, results |-> <<>>]
    ELSE LET idx == answer[i]
             rest == VectorResults(entries, answer, i + 1)
         IN  IF idx < Len(entries)
             THEN IF idx < 0 /\ idx + Len(entries) < 0
                  THEN [raised |-> TRUE, results |-> <<>>]
                  ELSE IF rest.raised THEN rest
                  ELSE [rest EXCEPT !.results =
                           <<Result(i, Distance(idx, i),
                                    entries[IF idx < 0 THEN idx + Len(entries) + 1
                                            ELSE idx + 1])>> \o @]
             ELSE rest

\* the fields display_results reads of an entry
Displayable(entry) ==
    /\ "definition" \in DOMAIN entry
    /\ "example" \in DOMAIN entry

\* display_results(results): "No results found." for the empty list, else a
\* block for each result; entry['definition'] or entry['example'] of an entry
\* without it raises KeyError, after the blocks of the results before it
display_results(rs) ==
    IF rs = <<>> THEN [raised |-> FALSE, said |-> "no_results", shown |-> 0]
    ELSE IF \A i \in 1..Len(rs) : Displayable(rs[i].entry)
         THEN [raised |-> FALSE, said |-> "results", shown |-> Len(rs)]
         ELSE [raised |-> TRUE, said |-> "results",
               shown |-> Min({i \in 1..Len(rs) : ~Displayable(rs[i].entry)}) - 1]

\* results = search_synonyms(query, ...), of the command line at hand
CliSearch(query, answer) ==
    IF program = "simple_query"
    THEN LET out == simple_query_search_synonyms(query, dictionary, 3)
         IN  [raised |-> out.raised, results |-> out.results]
    ELSE VectorResults(dictionary.entries, answer, 1)

\* interactive_search, found being what search_synonyms did:
\*     try: results = search_synonyms(...); display_results(results)
\*     except Exception as e: print(f"Error: {e}")
Turn(found) ==
    LET shown == display_results(found.results)
    IN  IF found.raised
        THEN [searched |-> TRUE, said |-> "error", results |-> <<>>, shown |-> 0]
        ELSE [searched |-> TRUE,
              said |-> IF shown.raised THEN "error" ELSE shown.said,
              results |-> found.results, shown |-> shown.shown]

\* main with --query: the same two calls outside any try
Once(found) ==
    LET shown == display_results(found.results)
    IN  IF found.raised
        THEN [searched |-> TRUE, said |-> "traceback", results |-> <<>>, shown |-> 0]
        ELSE [searched |-> TRUE,
              said |-> IF shown.raised THEN "traceback" ELSE shown.said,
              results |-> found.results, shown |-> shown.shown]

InitCli ==
    /\ dictionary \in CliDictionaries
    /\ SearchIdle
    /\ LabelIdle
    /\ ExpandIdle
    /\ LoadIdle
    /\ GenIdle
    /\ last_padded = NoPadded
    /\ process = "serving"
    /\ program \in {"simple_query", "query"}
    /\ cli_mode \in {"interactive", "one_shot"}
    /\ cli_pc = "reading"
    /\ cli_line = NoLine
    /\ cli_out = NoOut
    /\ ntotal \in IF program = "query" THEN 0..MaxVectors ELSE {0}
    /\ indices = <<>>

CliFrame ==
    UNCHANGED <<dictionary, searchVars, labelVars, expandVars, loadVars, startVars,
                genVars, cli_mode, ntotal>>

\* one turn of `while True` of interactive_search: input() outside the try,
\* strip, the three words that break, the blank line, the search
ReadLine(outcome, answer) ==
    /\ cli_mode = "interactive"
    /\ cli_pc = "reading"
    /\ cli_line' = outcome
    /\ LET query == Strip(outcome.text)
       IN  IF outcome.eof
           THEN /\ cli_pc' = "crashed"
                /\ cli_out' = [NoOut EXCEPT !.said = "traceback"]
                /\ indices' = <<>>
           ELSE IF LowerString(query) \in QuitWords
           THEN /\ cli_pc' = "ended"
                /\ cli_out' = [NoOut EXCEPT !.said = "goodbye"]
                /\ indices' = <<>>
           ELSE IF query = <<>>
           THEN /\ cli_pc' = "reading"
                /\ cli_out' = [NoOut EXCEPT !.said = "please"]
                /\ indices' = <<>>
           ELSE /\ cli_pc' = "reading"
                /\ cli_out' = Turn(CliSearch(query, answer))
                /\ indices' = answer
    /\ CliFrame

\* main with --query: search and display outside any try
OneShot(query, answer) ==
    /\ cli_mode = "one_shot"
    /\ cli_pc = "reading"
    /\ query # <<>>
    /\ cli_line' = [eof |-> FALSE, text |-> query]
    /\ cli_out' = Once(CliSearch(query, answer))
    /\ cli_pc' = IF cli_out'.said = "traceback" THEN "crashed" ELSE "done"
    /\ indices' = answer
    /\ CliFrame

Answers == IF program = "query" THEN IndexAnswers(ntotal, default_top_k) ELSE {<<>>}

NextCli ==
    \/ \E outcome \in InputOutcomes, answer \in Answers : ReadLine(outcome, answer)
    \/ \E query \in CliLines, answer \in Answers : OneShot(query, answer)

SpecCli == InitCli /\ [][NextCli]_vars

(***************************************************************************)
(* The search endpoint on a dictionary with many headwords close to one    *)
(* query: "abc", "abd", ... after fifty fillers.                           *)
(***************************************************************************)
\* most headwords of the model close to the query "ab"
MaxClose == 13

CloseEntry(j) ==
    [headword |-> <<97, 98, 98 + j>>, pos |-> "noun", synonyms |-> << <<122, 122>> >>]

CloseDictionaries ==
    {[pre |-> 50, entries |-> [j \in 1..n |-> CloseEntry(j)], post |-> 0] :
        n \in (MaxClose - 2)..MaxClose}

\* max_results of the request: absent, or 10 to 13
CloseCounts == {<<>>} \cup {<<n>> : n \in 10..13}

InitClose ==
    /\ dictionary \in CloseDictionaries
    /\ SearchIdle
    /\ MoreIdle
    /\ LabelIdle
    /\ ExpandIdle
    /\ LoadIdle

NextClose ==
    \/ \E qa \in QueryArgs, na \in CloseCounts, s \in Samples(dictionary) :
          api_search(qa, na, s)
    \/ NextRequest

SpecClose == InitClose /\ [][NextClose]_vars

(***************************************************************************)
(* src/generate_entries.py: the prompt, the extraction of an entry from    *)
(* the prompt and the model's response, and process_all_words.  A text is  *)
(* the sequence of its lines; a line is its label (the words before the    *)
(* colon, "" when it has none) and the rest of the line.  The rest is a    *)
(* word in code points after "Word", the pieces between the commas after   *)
(* "Synonyms", and a sequence of pieces of text after the other labels (a  *)
(* letter that cannot be written in a string here is the piece "U+" and    *)
(* its code point).                                                        *)
(***************************************************************************)
TextLine(label, value) == [label |-> label, value |-> value]

\* create_prompt(word): the instruction, the three few-shot blocks, the line
\* "Word: {word}" and the open line "Part of speech:"
create_prompt(word) ==
    << TextLine("", <<"Generate 5 Yoruba synonyms, part of speech, definition, and example sentence for the word in English and Yoruba.">>),
       TextLine("Word", <<32, 105, 108, 233>>),
       TextLine("Part of speech", <<"noun">>),
       TextLine("Synonyms", << <<32, 105, 108, 7865, 768>>, <<32, 105, 98, 249, 103, 98, 233>>,
                               <<32, 97, 102, 105, 110>>, <<32, 224, 224, 102, 105, 110>>,
                               <<32, 236, 100, 237>> >>),
       TextLine("Definition", <<"House or building where people live or work.">>),
       TextLine("Example in Yoruba", <<"Mo wà ní ilé mi.">>),
       TextLine("Example in English", <<"I am at my house.">>),
       TextLine("Word", <<32, 7885, 109, 7885>>),
       TextLine("Part of speech", <<"noun">>),
       TextLine("Synonyms", << <<32, 7885, 109, 7885, 98, 237, 98, 237>>,
                               <<32, 224, 98, 237, 107, 7865, 769>>,
                               <<32, 97, 114, 7885, 769, 109, 7885, 100, 7885, 769, 109, 7885>>,
                               <<32, 7885, 109, 7885, 107, 249, 110, 114, 105, 110>>,
                               <<32, 7885, 109, 7885, 98, 236, 110, 114, 105, 110>> >>),
       TextLine("Definition", <<"Child, offspring, or young person.">>),
       TextLine("Example in Yoruba", <<"Ọmọ náà ", "U+0144", " sùn.">>),
       TextLine("Example in English", <<"The child is sleeping.">>),
       TextLine("Word", <<32, 100, 225, 114, 97>>),
       TextLine("Part of speech", <<"adjective">>),
       TextLine("Synonyms", << <<32, 112, 7865, 768, 108, 7865, 769>>, <<32, 114, 7865, 119, 224>>,
                               <<32, 116, 242, 243, 116, 7885, 769>>,
                               <<32, 100, 225, 114, 97, 100, 225, 114, 97>>,
                               <<32, 7779, 224, 110>> >>),
       TextLine("Definition", <<"Good, fine, or beautiful.">>),
       TextLine("Example in Yoruba", <<"A", "U+1E63", "ọ yìí dára púpọ", "U+0300", ".">>),
       TextLine("Example in English", <<"This cloth is very good.">>),
       TextLine("Word", <<32>> \o word),
       TextLine("Part of speech", <<>>) >>

\* prompt + response: the response goes on in the open last line of the prompt
Concatenate(prompt, response) ==
    SubSeq(prompt, 1, Len(prompt) - 1)
        \o << TextLine(prompt[Len(prompt)].label, prompt[Len(prompt)].value \o response.first) >>
        \o response.more

\* re.search(label + r':\s*([^\n]+)', text): the first match in the text, none
\* (<<>>) when no line carries the label with something after it
re_search(label, text) ==
    LET hits == {i \in 1..Len(text) : text[i].label = label /\ text[i].value # <<>>}
    IN  IF hits = {} THEN <<>> ELSE text[Min(hits)].value

\* [s.strip() for s in synonyms_text.split(',')], then
\* list(dict.fromkeys(s for s in synonyms if s))
SplitSynonyms(pieces) ==
    AppendNew(<<>>, SelectSeq([i \in 1..Len(pieces) |-> Strip(pieces[i])],
                              LAMBDA piece : piece # <<>>))

\* extract_definition_from_response(response_text)
extract_definition_from_response(response_text) ==
    LET pos_match == re_search("Part of speech", response_text)
    IN  [headword |-> Strip(re_search("Word", response_text)),
         pos |-> IF pos_match = <<>> THEN "" ELSE pos_match[1],
         synonyms |-> SplitSynonyms(re_search("Synonyms", response_text)),
         definition |-> re_search("Definition", response_text),
         example |-> [yo |-> re_search("Example in Yoruba", response_text),
                      en |-> re_search("Example in English", response_text)]]

\* what the model can answer after "Part of speech:": nothing; an answer for
\* a verb with a synonym given twice; the first few-shot block over again
Responses ==
    { [first |-> <<>>, more |-> <<>>],
      [first |-> <<"verb">>,
       more |-> << TextLine("Synonyms", << <<32, 109, 117>>, <<32, 102, 105>>, <<32, 109, 117>> >>),
                   TextLine("Definition", <<"To eat.">>),
                   TextLine("Example in Yoruba", <<"Mo jẹ.">>),
                   TextLine("Example in English", <<"I eat.">>) >>],
      [first |-> <<"noun">>, more |-> SubSeq(create_prompt(<<>>), 4, 7)] }

\* the words of common_200.json the model names: "jẹ", "mu", "il"
CommonWords == << <<106, 7865>>, <<109, 117>>, <<105, 108>> >>

MaxWords == 5   \* longest word list
MaxBatch == 3   \* largest batch_size

WordLists == {[i \in 1..n |-> CommonWords[((i - 1) % Len(CommonWords)) + 1]] : n \in 0..MaxWords}

\* num_batches = (len(words) + batch_size - 1) // batch_size
num_batches_floor(length, size) == length \div size

num_batches(length, size) == (length + size - 1) \div size

\* words[start_idx:end_idx]
Slice(list, start_idx, end_idx) == SubSeq(list, start_idx + 1, Min({end_idx, Len(list)}))

\* generate_entries_for_batch(model, tokenizer, words_batch): the entries of
\* the words, given the responses the model decoded to
generate_entries_for_batch(words_batch, responses) ==
    [k \in 1..Len(words_batch) |->
        validate_entry(extract_definition_from_response(
                           Concatenate(create_prompt(words_batch[k]), responses[k])),
                       words_batch[k])]

InitPipeline ==
    /\ dictionary = EmptyDictionary
    /\ SearchIdle
    /\ LabelIdle
    /\ ExpandIdle
    /\ LoadIdle
    /\ StartIdle
    /\ CliIdle
    /\ generator = "none"
    /\ generated = NoGenerated
    /\ CommonIdle
    /\ words \in WordLists
    /\ batch_size \in 1..MaxBatch
    /\ batches = <<>>
    /\ output = <<>>
    /\ processed_entries = 0
    /\ errors = {}
    /\ last_extracted = NoExtracted
    /\ pipe_pc = "running"

PipeFrame ==
    UNCHANGED <<dictionary, searchVars, labelVars, expandVars, loadVars, startVars, cliVars,
                generator, generated, commonVars, words, batch_size>>

\* one turn of `for i in tqdm(range(num_batches))`: the batch is cut, its
\* entries are generated and then written, one line and one count each; a
\* generation that raises leaves the except clause to print the batch number
ProcessBatch(responses, raises) ==
    LET i == Len(batches)
        start_idx == i * batch_size
        end_idx == Min({(i + 1) * batch_size, Len(words)})
        batch == Slice(words, start_idx, end_idx)
        entries == generate_entries_for_batch(batch, responses)
    IN  /\ pipe_pc = "running"
        /\ i < num_batches(Len(words), batch_size)
        /\ batches' = Append(batches, batch)
        /\ IF raises
           THEN /\ errors' = errors \cup {i + 1}
                /\ UNCHANGED <<output, processed_entries, last_extracted>>
           ELSE /\ output' = output \o entries
                /\ processed_entries' = processed_entries + Len(entries)
                /\ last_extracted' =
                      IF batch = <<>> THEN last_extracted
                      ELSE [word |-> batch[Len(batch)],
                            response |-> responses[Len(batch)],
                            entry |-> extract_definition_from_response(
                                          Concatenate(create_prompt(batch[Len(batch)]),
                                                      responses[Len(batch)]))]
                /\ UNCHANGED errors
        /\ UNCHANGED pipe_pc
        /\ PipeFrame

\* the loop is over: the file is closed and processed_entries is returned
ProcessReturn ==
    /\ pipe_pc = "running"
    /\ Len(batches) >= num_batches(Len(words), batch_size)
    /\ pipe_pc' = "returned"
    /\ UNCHANGED <<batches, output, processed_entries, errors, last_extracted>>
    /\ PipeFrame

NextPipeline ==
    \/ \E responses \in [1..MaxBatch -> Responses] : ProcessBatch(responses, FALSE)
    \/ \E responses \in [1..MaxBatch -> Responses] : ProcessBatch(responses, TRUE)
    \/ ProcessReturn

SpecPipeline == InitPipeline /\ [][NextPipeline]_vars

(***************************************************************************)
(* src/get_common.py main: the most common words of the input files, or    *)
(* of the fallback lists.                                                  *)
(***************************************************************************)
\* the list of the branch without input files (59 words, two of them twice)
fallback_words ==
    << <<7885, 106, 7885, 769>>, <<105, 108, 233>>, <<7865, 768, 107, 7885, 769>>, <<7885, 109, 7885>>,
       <<105, 115, 7865, 769>>, <<111, 250, 110, 106, 7865>>, <<224, 103, 98, 224>>, <<7885, 768, 114, 7885, 768>>,
       <<236, 103, 98, 224>>, <<236, 119, 233>>, <<111, 109, 105>>, <<111, 108, 250>>,
       <<7865, 110, 117>>, <<7885, 107, 7885, 768>>, <<7885, 768, 114, 7865, 769>>, <<105, 108, 7865, 768>>,
       <<111, 106, 250>>, <<7885, 119, 7885, 769>>, <<111, 114, 237>>, <<105, 110, 250>>,
       <<7865, 115, 7865, 768>>, <<7885, 106, 7885, 769>>, <<97, 108, 7865, 769>>, <<111, 119, 243>>,
       <<105, 116, 7885, 769>>, <<7865, 768, 107, 7885, 769>>, <<7885, 107, 249, 110, 114, 105, 110>>, <<111, 98, 236, 110, 114, 105, 110>>,
       <<7885, 100, 250, 110>>, <<236, 100, 237>>, <<105, 103, 98, 243>>, <<242, 107, 232>>,
       <<236, 108, 250>>, <<7865, 114, 97, 110>>, <<7865, 106, 7865>>, <<236, 102, 7865, 769>>,
       <<236, 103, 98, 224, 108, 224>>, <<224, 236, 115, 224, 110>>, <<224, 236, 108, 101, 114, 97>>, <<224, 108, 224, 225, 102, 237, 224>>,
       <<7865, 768, 109, 237>>, <<97, 114, 225>>, <<236, 109, 7885, 769>>, <<236, 7779, 101>>,
       <<7865, 108, 7865, 769, 114, 236, 237>>, <<236, 106, 7885, 98, 97>>, <<236, 108, 101, 114, 97>>, <<236, 100, 224, 106, 7885, 769>>,
       <<236, 7779, 7885, 768, 107, 97, 110>>, <<236, 100, 224, 103, 98, 224, 115, 243, 107, 232>>, <<236, 114, 236, 110>>, <<232, 100, 232>>,
       <<236, 7779, 7865, 768, 100, 225, 108, 7865, 768>>, <<103, 98, 111, 103, 98, 111>>, <<107, 233, 107, 101, 114, 233>>, <<112, 250, 112, 7885, 768>>,
       <<100, 237, 7865, 768>>, <<116, 243>>, <<106, 249>> >>

\* the list of the branch with too few words (20 words)
fallback_words_to_add ==
    << <<7885, 106, 7885, 769>>, <<105, 108, 233>>, <<7865, 768, 107, 7885, 769>>, <<7885, 109, 7885>>,
       <<105, 115, 7865, 769>>, <<111, 250, 110, 106, 7865>>, <<224, 103, 98, 224>>, <<7885, 768, 114, 7885, 768>>,
       <<236, 103, 98, 224>>, <<236, 119, 233>>, <<111, 109, 105>>, <<111, 108, 250>>,
       <<7865, 110, 117>>, <<7885, 107, 7885, 768>>, <<7885, 768, 114, 7865, 769>>, <<105, 108, 7865, 768>>,
       <<111, 106, 250>>, <<7885, 119, 7885, 769>>, <<111, 114, 237>>, <<105, 110, 250>> >>

\* words the files can hold: "ati", "ilé", "ni", "omi" (two of the fallback lists)
CountedPool == << <<97, 116, 105>>, <<105, 108, 233>>, <<110, 105>>, <<111, 109, 105>> >>

MaxCounted == 4   \* most distinct words in the input files
MaxTopN == 61     \* largest --top-n

\* fallback_words * multiplier
RECURSIVE Repeat(_, _)
Repeat(list, multiplier) ==
    IF multiplier <= 0 THEN <<>> ELSE list \o Repeat(list, multiplier - 1)

\* token_counter.most_common(args.top_n), the words of it
most_common(counter, n) == SubSeq(counter, 1, Min({n, Len(counter)}))

\* for word in fallback_words: if word not in top_words: append it, and
\* break once len(top_words) >= args.top_n
RECURSIVE AddFallback(_, _, _)
AddFallback(list, more, n) ==
    IF more = <<>> THEN list
    ELSE IF Member(list, Head(more)) THEN AddFallback(list, Tail(more), n)
    ELSE IF Len(list) + 1 >= n THEN Append(list, Head(more))
    ELSE AddFallback(Append(list, Head(more)), Tail(more), n)

InitCommon ==
    /\ dictionary = EmptyDictionary
    /\ SearchIdle
    /\ LabelIdle
    /\ ExpandIdle
    /\ LoadIdle
    /\ StartIdle
    /\ CliIdle
    /\ generator = "none"
    /\ generated = NoGenerated
    /\ PipeIdle
    /\ files_found \in {0, 1}
    /\ token_counter \in {SubSeq(CountedPool, 1, n) : n \in 0..MaxCounted}
    /\ files_found = 0 => token_counter = <<>>
    /\ top_n \in 0..MaxTopN
    /\ fallback \in BOOLEAN
    /\ top_words = <<>>
    /\ common_pc = "start"

\* main(): without input files the fallback list, repeated to top_n words and
\* cut there, or nothing; with input files the top_n most common words and,
\* when they are too few and --fallback is given, words of the short list
get_common_main ==
    /\ common_pc = "start"
    /\ IF files_found = 0
       THEN IF ~fallback
            THEN /\ common_pc' = "returned"
                 /\ UNCHANGED top_words
            ELSE LET multiplier == (top_n + Len(fallback_words) - 1) \div Len(fallback_words)
                     repeated == IF Len(fallback_words) < top_n
                                 THEN Repeat(fallback_words, multiplier)
                                 ELSE fallback_words
                 IN  /\ top_words' = Slice(repeated, 0, top_n)
                     /\ common_pc' = "written"
       ELSE LET counted == most_common(token_counter, top_n)
            IN  /\ top_words' = IF Len(counted) < top_n /\ fallback
                                THEN AddFallback(counted, fallback_words_to_add, top_n)
                                ELSE counted
                /\ common_pc' = "written"
    /\ UNCHANGED <<dictionary, searchVars, labelVars, expandVars, loadVars, startVars, cliVars,
                   generator, generated, pipeVars, files_found, token_counter, top_n, fallback>>

NextCommon == get_common_main

SpecCommon == InitCommon /\ [][NextCommon]_vars

(***************************************************************************)
(* src/scripts/expand_massive_dictionary.py expand_massive_dictionary.     *)
(* The two for loops make entries_to_add turns between them; a turn is the *)
(* while loop of at most 50 attempts and the if statement after it.  The   *)
(* .partial file written after each batch is removed at the end.           *)
(***************************************************************************)
\* what the input file holds: nothing (the file is missing), or entries under
\* "b"; under "b", "ba", "aa"; under those and "ba1"
LoadedEntry(key) == [headword |-> key, pos |-> "noun", synonyms |-> <<key>>]

MassiveKeyLists ==
    { << <<98>> >>,
      << <<98>>, <<98, 97>>, <<97, 97>> >>,
      << <<98>>, <<98, 97>>, <<97, 97>>, <<98, 97, 49>> >> }

MassiveInputFiles ==
    {NoFile} \cup {[kind |-> "json",
                    members |-> [i \in 1..Len(ks) |-> <<ks[i], LoadedEntry(ks[i])>>]] :
                      ks \in MassiveKeyLists}

MaxMassiveTarget == 5   \* largest target_count of expand_massive_dictionary
MaxSuffix == 2          \* largest outcome of random.randint(1, 999)

\* while attempt_count < 50
headword_attempt_limit == 50

\* str(n) of a number of one digit
Digits(n) == <<48 + n>>

\* existing_headwords: set(dictionary.keys()) at the start, and every key
\* stored since
existing_headwords == MappingKeys(massive_dictionary)

InitMassive ==
    /\ dictionary = EmptyDictionary
    /\ SearchIdle
    /\ MoreIdle
    /\ LabelIdle
    /\ LoadIdle
    /\ input_file \in MassiveInputFiles
    /\ target_count = 0
    /\ loaded = <<>>
    /\ output_file = NoFile
    /\ expand_pc = "start"
    /\ returned_count = 0
    /\ MassiveIdle

MassiveFrame ==
    UNCHANGED <<dictionary, searchVars, labelVars, loadVars, moreVars, input_file>>

\* the lines before the loops: load, count, and the return when nothing is
\* to be added
MassiveStart(target) ==
    LET start == load_existing_dictionary(input_file)
        entries_to_add == Max({0, target - Len(start)})
    IN  /\ expand_pc = "start"
        /\ target_count' = target
        /\ loaded' = start
        /\ massive_dictionary' = start
        /\ IF entries_to_add = 0
           THEN expand_pc' = "done" /\ returned_count' = Len(start)
           ELSE expand_pc' = "attempting" /\ UNCHANGED returned_count
        /\ UNCHANGED <<output_file, entries_done, attempt_count, last_entry, stored_key>>
        /\ MassiveFrame

\* one pass of `while attempt_count < 50`: an entry is generated; a headword
\* that is new is stored and ends the loop (break), and so does the 50th pass
Attempt(generated_entry) ==
    /\ expand_pc = "attempting"
    /\ attempt_count < headword_attempt_limit
    /\ attempt_count' = attempt_count + 1
    /\ last_entry' = generated_entry
    /\ IF generated_entry.headword \notin existing_headwords
       THEN /\ massive_dictionary' =
                  SetItem(massive_dictionary, generated_entry.headword, generated_entry)
            /\ stored_key' = generated_entry.headword
            /\ expand_pc' = "after_while"
       ELSE /\ UNCHANGED <<massive_dictionary, stored_key>>
            /\ expand_pc' = IF attempt_count' < headword_attempt_limit
                            THEN "attempting" ELSE "after_while"
    /\ UNCHANGED <<target_count, loaded, output_file, returned_count, entries_done>>
    /\ MassiveFrame

\* `if attempt_count >= 50`: the headword gets a number behind it, is written
\* into entry["headword"] and the entry is stored under it.  entry is the
\* object generated last: when the while loop stored it, the dictionary
\* holds that same object under the first key, with the field just changed.
AfterWhile(n) ==
    LET headword == last_entry.headword \o Digits(n)
        entry == [last_entry EXCEPT !.headword = headword]
        aliased == IF stored_key = <<>> THEN massive_dictionary
                   ELSE SetItem(massive_dictionary, stored_key, entry)
        entries_to_add == Max({0, target_count - Len(loaded)})
    IN  /\ expand_pc = "after_while"
        /\ IF attempt_count >= headword_attempt_limit
           THEN /\ massive_dictionary' = SetItem(aliased, headword, entry)
                /\ last_entry' = entry
           ELSE UNCHANGED <<massive_dictionary, last_entry>>
        /\ entries_done' = entries_done + 1
        /\ attempt_count' = 0
        /\ stored_key' = <<>>
        /\ expand_pc' = IF entries_done' < entries_to_add THEN "attempting" ELSE "saving"
        /\ UNCHANGED <<target_count, loaded, output_file, returned_count>>
        /\ MassiveFrame

\* the final json.dump and `return len(dictionary)`
MassiveReturn ==
    /\ expand_pc = "saving"
    /\ output_file' = json_dump(massive_dictionary)
    /\ returned_count' = Len(massive_dictionary)
    /\ expand_pc' = "done"
    /\ UNCHANGED <<target_count, loaded, massiveVars>>
    /\ MassiveFrame

NextMassive ==
    \/ \E target \in 0..MaxMassiveTarget : MassiveStart(target)
    \/ \E e \in GeneratedEntries : Attempt(e)
    \/ \E n \in 1..MaxSuffix : AfterWhile(n)
    \/ MassiveReturn

SpecMassive == InitMassive /\ [][NextMassive]_vars

(***************************************************************************)
(* Properties of the lookup.                                               *)
(***************************************************************************)
\* search_synonyms was called, and has returned or raised
Searched == status \in {"returned", "raised"}

\* the query as the stages see it
NormalizedQuery == normalize_word(request.query)

\* word w is written, letter for letter, in the entry's synonym list
Lists(entry, w) == \E i \in 1..Len(entry.synonyms) : entry.synonyms[i] = w

\* a synonym of the entry normalizes to w
ListsNormalized(entry, w) ==
    \E i \in 1..Len(entry.synonyms) : normalize_word(entry.synonyms[i]) = w

\* the entries the synonym scan of the running front end visits and that list
\* the normalized query: every entry in simple_query.py, the first 1000 in
\* iteration order in api/index.py and simple_app.py
ScannedListing ==
    {p \in ListedPositions(dictionary) :
        /\ frontend = "simple_query" \/ p <= 1000
        /\ ListsNormalized(EntryAt(dictionary, p), NormalizedQuery)}

\* the normalized query is no headword and no synonym anywhere in the dictionary
NeitherHeadwordNorSynonym ==
    /\ ~InDictionary(dictionary, NormalizedQuery)
    /\ \A p \in ListedPositions(dictionary) :
          ~ListsNormalized(EntryAt(dictionary, p), NormalizedQuery)

\* similarity ratio of the headword at position p to the normalized query
RatioAt(p) == ratio(KeyAt(dictionary, p), NormalizedQuery)

\* the headwords of the dictionary at or above the 0.6 cutoff (a filler
\* headword has ratio 0)
ClosePositions == {p \in ListedPositions(dictionary) : AtLeast(RatioAt(p), <<6, 10>>)}

\* C1, as claimed: a query that is a key of the dictionary gets exactly one
\* result, with rank 1 and similarity 1.0, carrying the entry stored under
\* that key.
C1_HeadwordQueryGetsItsEntry ==
    (Searched /\ InDictionary(dictionary, request.query)) =>
        /\ status = "returned"
        /\ results = <<Result(1, 10, Lookup(dictionary, request.query))>>

\* C2, as claimed: in a dictionary of any size, a query that is written in
\* some entry's synonym list and is no headword gets exactly one result, with
\* similarity 1.0, carrying the entry of a headword that lists the query.
C2_SynonymQueryGetsAListingEntry ==
    (/\ Searched
     /\ ~InDictionary(dictionary, request.query)
     /\ \E p \in ListedPositions(dictionary) : Lists(EntryAt(dictionary, p), request.query))
    =>  /\ status = "returned"
        /\ Len(results) = 1
        /\ results[1].similarity = 10
        /\ \E p \in ListedPositions(dictionary) :
              /\ results[1].entry = EntryAt(dictionary, p)
              /\ Lists(results[1].entry, request.query)

\* C2, amended: a query whose normalized form is no headword and is the
\* normalized form of a synonym of an entry the scan visits (every entry in
\* simple_query.py, the first 1000 entries in iteration order in api/index.py
\* and simple_app.py) gets exactly one result, with rank 1 and similarity
\* 1.0, carrying the full entry of the first such entry in iteration order.
C2_SynonymQueryGetsFirstScannedEntry ==
    (Searched /\ ~InDictionary(dictionary, NormalizedQuery) /\ ScannedListing # {}) =>
        /\ status = "returned"
        /\ results = <<Result(1, 10, EntryAt(dictionary, Min(ScannedListing)))>>

\* C2, witness: a dictionary of more than 1000 entries answered a synonym
\* query from an entry within the scan, a later entry listing it too
C2_Witness ==
    /\ Searched
    /\ frontend = "api_search"
    /\ stage = "synonym"
    /\ Size(dictionary) > 1000
    /\ Cardinality(ScannedListing) = 1
    /\ \E p \in ListedPositions(dictionary) :
          p > 1000 /\ ListsNormalized(EntryAt(dictionary, p), NormalizedQuery)

\* C3: the stages run in a fixed order on the normalized query: a headword
\* match returns the headword's own entry whatever the synonym lists hold, a
\* synonym match of the scan preempts the fuzzy stage, and the fuzzy stage
\* runs only when neither exact stage matched.
C3_StagesInOrder ==
    Searched =>
        /\ InDictionary(dictionary, NormalizedQuery) =>
              /\ stage = "headword"
              /\ results = <<Result(1, 10, Lookup(dictionary, NormalizedQuery))>>
        /\ (~InDictionary(dictionary, NormalizedQuery) /\ ScannedListing # {}) =>
              stage = "synonym"
        /\ stage = "fuzzy" =>
              ~InDictionary(dictionary, NormalizedQuery) /\ ScannedListing = {}

\* C3, witness: the query is a headword and a synonym of an entry listed
\* before it, and the headword's entry came back
C3_Witness ==
    /\ Searched
    /\ stage = "headword"
    /\ \E p \in ScannedListing : KeyAt(dictionary, p) # NormalizedQuery
    /\ results[1].entry.headword = NormalizedQuery

AlwaysConsidered ==
    IF frontend = "simple_query" \/ Size(dictionary) <= 10000
    THEN ListedPositions(dictionary)
    ELSE {p \in ListedPositions(dictionary) : p <= 500}

C4_WitnessOrdered ==
    /\ status = "returned"
    /\ stage = "fuzzy"
    /\ Len(results) = 2
    /\ Greater(ratio(results[1].entry.headword, NormalizedQuery),
               ratio(results[2].entry.headword, NormalizedQuery))

\* C5, as claimed: a query that is neither headword nor synonym and has every
\* headword below the cutoff gets the empty list, and no error.
C5_FarQueryGetsEmptyList ==
    (Searched /\ NeitherHeadwordNorSynonym /\ ClosePositions = {}) =>
        status = "returned" /\ results = <<>>

\* C6: on the fuzzy path the k-th result (from 1) carries rank k and
\* similarity 1.0 - 0.1 * (k - 1) and the entry of the k-th match the library
\* reports, whatever its true ratio; the list has at most max_results elements.
C6_FuzzyRanksAndScores ==
    (status = "returned" /\ stage = "fuzzy") =>
        LET found == get_close_matches(NormalizedQuery,
                        {KeyAt(dictionary, p) : p \in sampled_keys}, request.max_results)
        IN  /\ Len(results) <= request.max_results
            /\ Len(results) = Len(found)
            /\ \A k \in 1..Len(results) :
                  /\ results[k].rank = k
                  /\ results[k].similarity = 10 - (k - 1)
                  /\ results[k].entry = Lookup(dictionary, found[k])

\* C6, witness: two fuzzy results, the second with similarity 0.9 and a true
\* ratio that is not 0.9
C6_Witness ==
    /\ status = "returned"
    /\ stage = "fuzzy"
    /\ Len(results) = 2
    /\ results[2].similarity = 9
    /\ ~SameRatio(ratio(results[2].entry.headword, NormalizedQuery), <<9, 10>>)

\* C9, as claimed: a request to /api/search whose query is absent, empty or
\* empty after normalization is answered with the 400 error and no search.
C9_EmptyQueryIsRejected ==
    (frontend = "api_search" /\ NormalizedQuery = <<>>) =>
        status = "http400" /\ stage = "none"

(***************************************************************************)
(* Properties of the size label.                                           *)
(***************************************************************************)
\* the label the claim gives to an entry count
ClaimedLabel(n) ==
    CASE n >= 100000 -> "massive"
      [] n >= 2500 /\ n < 100000 -> "expanded"
      [] n < 2500 -> "basic"

\* the template's text in lower case
LowerCased(text) ==
    CASE text = "Massive" -> "massive"
      [] text = "Expanded" -> "expanded"
      [] text = "Basic" -> "basic"
      [] OTHER -> text

\* C7: the label is decided by the entry count n alone: massive from 100000,
\* expanded from 2500 up to 99999, basic below 2500; the template (whose text
\* is capitalised) and the footer give every n the same label.
C7_LabelByEntryCount ==
    LET n == Size(dictionary)
    IN  /\ streamlit_label # "none" => streamlit_label = ClaimedLabel(n)
        /\ flask_label # "none" => LowerCased(flask_label) = ClaimedLabel(n)
        /\ (streamlit_label # "none" \/ flask_label # "none") =>
              LowerCased(template_dictionary_type(n)) = footer_dictionary_type(n)

\* C7, witness: the footer is rendered for a dictionary of exactly 2500 entries
C7_Witness ==
    /\ Size(dictionary) = 2500
    /\ streamlit_label = "expanded"

(***************************************************************************)
(* Properties of expand_dictionary.                                        *)
(***************************************************************************)
\* C8: when target_count is at most the number of loaded entries, the mapping
\* read back from the output file has the keys, the entry under each key and
\* the key order of the mapping loaded from the input file.
C8_LoadSaveRoundTrip ==
    (expand_pc \in {"done", "dump_raised"} /\ target_count <= Len(loaded)) =>
        /\ output_file.kind = "json"
        /\ json_load(output_file) = loaded

(***************************************************************************)
(* Properties of load_dictionary.                                          *)
(***************************************************************************)
\* C10: when every candidate is missing or holds what is not JSON,
\* load_dictionary returns the minimal dictionary - five entries, each with a
\* headword, a part of speech and a non-empty synonym list - and does not
\* raise.
C10_FallbackToMinimalDictionary ==
    (load_pc # "start" /\ \A i \in 1..Len(all_paths) : fs[i] # "valid") =>
        /\ load_pc = "loaded"
        /\ Size(dictionary) = 5
        /\ dictionary.entries = create_minimal_dictionary
        /\ \A j \in 1..Len(dictionary.entries) :
              /\ dictionary.entries[j].headword # <<>>
              /\ dictionary.entries[j].pos \in {"noun", "verb", "adjective"}
              /\ dictionary.entries[j].synonyms # <<>>

(***************************************************************************)
(* Properties of the start of the front ends.                              *)
(***************************************************************************)
SomeFileMissingOrMalformed == \E i \in DOMAIN fs : fs[i] \in {"missing", "malformed"}

NoBytesProblem == \A i \in DOMAIN fs : fs[i] # "not_utf8"

\* a file that is not UTF-8 text is reached before any file that loads
ReadsBadBytes ==
    \E i \in DOMAIN fs : fs[i] = "not_utf8" /\ \A j \in 1..(i - 1) : fs[j] # "valid"

SomeFileValid == \E i \in DOMAIN fs : fs[i] = "valid"

Ended == process \in {"stopped", "exited", "crashed"}

CandidateName(i) == IF program = "api" THEN all_paths[i][2] ELSE dictionary_files[i]

Priority(i) ==
    CHOOSE k \in 1..3 :
        CandidateName(i) = <<"yoruba_synonyms_massive.json", "yoruba_synonyms_expanded.json",
                             "yoruba_synonyms_static.json">>[k]

FirstValid == CHOOSE i \in DOMAIN fs : fs[i] = "valid" /\ \A j \in 1..(i - 1) : fs[j] # "valid"

\* C12: in the web API and in simple_app.py, when some candidate exists and
\* parses as JSON, the loader returns the content of the first such candidate
\* in the order massive, expanded, static, and every candidate of higher
\* priority than the one used is missing or malformed.
C12_FirstLoadableCandidateWins ==
    (program \in {"api", "simple_app"} /\ process # "starting" /\ SomeFileValid) =>
        /\ load_pc = "loaded"
        /\ dictionary.pre = FileContent(FirstValid).pre
        /\ \A j \in DOMAIN fs :
              Priority(j) < Priority(FirstValid) => fs[j] \in {"missing", "malformed"}

(***************************************************************************)
(* Further properties of the lookup.                                       *)
(***************************************************************************)
\* C13: no step of the page route or of the search endpoint of the web API,
\* whatever the query and the result count and whichever stage answers (or
\* none, or an exception), changes the dictionary: same keys, same entries,
\* same order.
C13_LookupLeavesDictionary ==
    [][frontend' \in {"api_index", "api_search"} => dictionary' = dictionary]_vars

\* the search endpoint has answered from the fuzzy stage, the page route
\* from the headword or the synonym stage
C13_Witness ==
    /\ status = "returned"
    /\ results # <<>>
    /\ \/ frontend = "api_search" /\ stage = "fuzzy"
       \/ frontend = "api_index" /\ stage \in {"headword", "synonym"}

\* C14: the search endpoint, given a non-empty query and any integer result
\* count (5 when absent), answers with the body of query, results and
\* dictionary size, and results has at most that many elements.
C14_EndpointAnswersWithinCount ==
    (frontend = "api_search" /\ status # "idle" /\ request.query # <<>>) =>
        /\ status = "returned"
        /\ Len(results) <= request.max_results

(***************************************************************************)
(* Properties of the generation code.                                      *)
(***************************************************************************)
\* C15: every entry the padding of the web API, validate_entry,
\* generate_synonyms or generate_enhanced_synonyms returns has a non-empty
\* synonym list, whatever the headword and the random outcomes.
C15_GeneratedSynonymsNonEmpty ==
    (generator # "none" /\ generated.returned) => Len(generated.entry.synonyms) > 0

\* validate_entry got an entry without synonyms and gave it its headword as
\* the synonym, five times
C15_Witness ==
    /\ generator = "validate_entry"
    /\ generated.returned
    /\ \A i \in 1..5 : generated.entry.synonyms[i] = generated.entry.headword

(***************************************************************************)
(* Properties of the command lines.                                        *)
(***************************************************************************)
\* the last input() gave a line that, trimmed and lower-cased, is q, quit or exit
QuitLine ==
    /\ ~cli_line.eof
    /\ LowerString(Strip(cli_line.text)) \in
          { <<113>>, <<113, 117, 105, 116>>, <<101, 120, 105, 116>> }

\* C16: in interactive mode, after each input, the loop has ended exactly when
\* the trimmed line is q, quit or exit in any case; a blank line gives the
\* prompt for a word and no search; any other line gives one search, whose
\* outcome - results, none, or the report of an exception - leaves the loop
\* running.
C16_LoopEndsOnlyOnQuit ==
    (cli_mode = "interactive" /\ cli_out.said # "none") =>
        /\ (cli_pc # "reading") <=> QuitLine
        /\ (~QuitLine /\ Strip(cli_line.text) = <<>>) =>
              (cli_out.said = "please" /\ ~cli_out.searched)
        /\ (~QuitLine /\ Strip(cli_line.text) # <<>>) =>
              (cli_out.searched /\ cli_out.said \in {"results", "no_results", "error"})

\* the entry has the fields the data model requires
Conforms(entry) == {"headword", "pos", "synonyms"} \subseteq DOMAIN entry

\* C17: in both modes of simple_query.py, when every result's entry conforms to the data model
\* (definition and example being optional), display_results prints a block
\* for every result and does not raise.
C17_EveryConformingResultIsPrinted ==
    (/\ program = "simple_query"
     /\ cli_out.searched
     /\ cli_out.results # <<>>
     /\ \A k \in 1..Len(cli_out.results) : Conforms(cli_out.results[k].entry)) =>
        /\ cli_out.said = "results"
        /\ cli_out.shown = Len(cli_out.results)
        /\ cli_pc # "crashed"

\* C19: each result of the vector search stands for a neighbour the index
\* reported: at its position i the reported idx is within 0 <= idx <
\* len(entries) and the entry is entries[idx]; a position padded with -1 has
\* no result.
C19_ResultsAreReportedNeighbours ==
    (program = "query" /\ cli_out.searched) =>
        /\ \A k \in 1..Len(cli_out.results) :
              LET idx == indices[cli_out.results[k].rank]
              IN  /\ 0 <= idx
                  /\ idx < Len(dictionary.entries)
                  /\ cli_out.results[k].entry = dictionary.entries[idx + 1]
        /\ \A i \in 1..Len(indices) :
              indices[i] = -1 => \A k \in 1..Len(cli_out.results) : cli_out.results[k].rank # i

(***************************************************************************)
(* Properties of the ranking.                                              *)
(***************************************************************************)
\* C18: every similarity in a list search_synonyms returns lies between 0.0
\* and 1.0 (0 and 10 tenths), whatever the dictionary, the query and the
\* result count, counts above 10 of the search endpoint included.
C18_SimilarityWithinUnitInterval ==
    status = "returned" =>
        \A k \in 1..Len(results) :
            results[k].similarity >= 0 /\ results[k].similarity <= 10

(***************************************************************************)
(* Properties of the padding of the web API.                               *)
(***************************************************************************)
\* what load_dictionary returned to the module
LoadedDictionary == load_dictionary(fs, 1).data

\* C20: once the web API module has initialised its dictionary holds at
\* least 50 entries; during and after the padding every entry that was
\* loaded stands where it stood, unchanged, and the entry the padding stored
\* last is stored under its own headword.
C20_PaddedToFiftyKeepingLoaded ==
    (program = "api" /\ process \in {"padding", "serving"}) =>
        /\ process = "serving" => Size(dictionary) >= 50
        /\ Size(dictionary) >= Size(LoadedDictionary)
        /\ \A p \in 1..Size(LoadedDictionary) :
              EntryAt(dictionary, p) = EntryAt(LoadedDictionary, p)
        /\ last_padded # NoPadded =>
              /\ last_padded.key = last_padded.entry.headword
              /\ \E p \in (Size(LoadedDictionary) + 1)..Size(dictionary) :
                    KeyAt(dictionary, p) = last_padded.key

\* the module fell back to the five entries of the minimal dictionary, one of
\* them "omi", and padded them to 50 with "ba" among the new entries
C20_Witness ==
    /\ program = "api"
    /\ process = "serving"
    /\ Size(LoadedDictionary) = 5
    /\ Size(dictionary) = 50
    /\ InDictionary(dictionary, <<111, 109, 105>>)
    /\ InDictionary(dictionary, <<98, 97>>)

\* C21: every entry the padding of the web API stores has 3 to 5 synonyms,
\* whatever words generate_yoruba_word() returned for them.
C21_PaddedEntryHasThreeToFiveSynonyms ==
    (program = "api" /\ last_padded # NoPadded) =>
        /\ Len(last_padded.entry.synonyms) >= 3
        /\ Len(last_padded.entry.synonyms) <= 5

(***************************************************************************)
(* Properties of generate_entries.py.                                      *)
(***************************************************************************)
\* C22: validate_entry(e, w) returns a complete entry that matches w: its
\* headword is w, its part of speech, definition and two example sentences
\* are non-empty, its synonym list has at least 5 elements, and
\* validate_entry applied to it again with w returns it unchanged.
C22_ValidatedEntryCompleteAndMatching ==
    generator = "validate_entry" =>
        /\ generated.entry.headword = generated.expected
        /\ generated.entry.pos # ""
        /\ generated.entry.definition # <<>>
        /\ generated.entry.example.yo # <<>>
        /\ generated.entry.example.en # <<>>
        /\ Len(generated.entry.synonyms) >= 5
        /\ validate_entry(generated.entry, generated.expected) = generated.entry

\* the text that follows the final "Word: w" line of the prompt: the open
\* line "Part of speech:" and the response of the model
AfterFinalWordLine(response) ==
    <<TextLine("Part of speech", response.first)>> \o response.more

\* what that text alone states
StatedByResponse(response) == extract_definition_from_response(AfterFinalWordLine(response))

\* C23: the entry extracted from create_prompt(w) + r has the part of
\* speech, the synonyms, the definition and the two example sentences that
\* the text after the final "Word: w" line of the prompt states (the
\* response of the model for w), not those of a few-shot block before it.
C23_ExtractedFromResponse ==
    last_extracted # NoExtracted =>
        /\ last_extracted.entry.pos = StatedByResponse(last_extracted.response).pos
        /\ last_extracted.entry.synonyms = StatedByResponse(last_extracted.response).synonyms
        /\ last_extracted.entry.definition = StatedByResponse(last_extracted.response).definition
        /\ last_extracted.entry.example = StatedByResponse(last_extracted.response).example

\* ceil(a / b) for b > 0
Ceiling(a, b) == IF a % b = 0 THEN a \div b ELSE (a \div b) + 1

\* the batches one after the other
RECURSIVE Flatten(_)
Flatten(lists) == IF lists = <<>> THEN <<>> ELSE Head(lists) \o Flatten(Tail(lists))

\* the words of the batches whose generation did not raise, in order
WordsGenerated ==
    Flatten([i \in 1..Len(batches) |-> IF i \in errors THEN <<>> ELSE batches[i]])

\* C24: process_all_words takes ceil(len(words) / batch_size) consecutive
\* batches that together are the word list, every word once and in order; a
\* batch whose generation raised has no line in the output file, the batches
\* after it are processed all the same, each written line belongs to the
\* next word of a batch that did not raise, and the count returned is the
\* number of lines written.
C24_BatchesCoverWordsAndCountLines ==
    pipe_pc \in {"running", "returned"} =>
        /\ Flatten(batches) = SubSeq(words, 1, Len(Flatten(batches)))
        /\ \A i \in 1..Len(batches) : batches[i] # <<>> /\ Len(batches[i]) <= batch_size
        /\ \A i \in 1..(Len(batches) - 1) : Len(batches[i]) = batch_size
        /\ Len(output) = Len(WordsGenerated)
        /\ \A k \in 1..Len(output) :
              Contains(LowerString(output[k].headword), LowerString(WordsGenerated[k]))
        /\ processed_entries = Len(output)
        /\ pipe_pc = "returned" =>
              /\ Len(batches) = Ceiling(Len(words), batch_size)
              /\ Flatten(batches) = words

\* five words in batches of two: the second batch raised, the first and the
\* third (the one word left over) were written, and 3 was returned
C24_Witness ==
    /\ pipe_pc = "returned"
    /\ Len(words) = 5
    /\ batch_size = 2
    /\ errors = {2}
    /\ Len(batches) = 3
    /\ processed_entries = 3
    /\ Len(output) = 3

(***************************************************************************)
(* Properties of get_common.py.                                            *)
(***************************************************************************)
\* C25: run with --fallback, get_common writes a list of exactly top_n
\* words, when no input file was found and when the input files gave fewer
\* than top_n distinct words.
C25_FallbackListHasTopNWords ==
    (common_pc # "start" /\ fallback /\ (files_found = 0 \/ Len(token_counter) < top_n)) =>
        /\ common_pc = "written"
        /\ Len(top_words) = top_n

(***************************************************************************)
(* Properties of expand_massive_dictionary.py.                             *)
(***************************************************************************)
\* a turn of the inner for loop has just ended, or none has begun
BetweenTurns ==
    \/ expand_pc = "attempting" /\ attempt_count = 0
    \/ expand_pc \in {"saving", "done"}

\* C26: started with fewer than target_count entries,
\* expand_massive_dictionary ends with exactly target_count entries and
\* returns that number, whatever was generated; every turn of the inner
\* loop adds exactly one key, and the entries that were loaded stay as
\* they were.
C26_ExactlyTargetCountOneKeyPerTurn ==
    (expand_pc \notin {"off", "start"} /\ Len(loaded) < target_count) =>
        /\ BetweenTurns => Len(massive_dictionary) = Len(loaded) + entries_done
        /\ \A i \in 1..Len(loaded) : massive_dictionary[i] = loaded[i]
        /\ expand_pc = "done" =>
              /\ Len(massive_dictionary) = target_count
              /\ returned_count = target_count

\* C27: every entry expand_massive_dictionary has added is stored under the
\* key that its own headword field holds, the entries of the numeric-suffix
\* fallback after 50 attempts included.
C27_AddedEntriesKeyedByHeadword ==
    expand_pc \notin {"off", "start"} =>
        \A i \in (Len(loaded) + 1)..Len(massive_dictionary) :
            massive_dictionary[i][1] = massive_dictionary[i][2].headword

====
